---- MODULE Spec2Model ----
(***************************************************************************)
(* Verification model of the pubky-nexus event ingestion engine:           *)
(*   - the counts index and its create-if-absent primitive,                *)
(*   - the multi-homeserver runner (pre_run_all, run_all, run_default),    *)
(*   - the per-homeserver event processor (poll_events,                    *)
(*     process_event_lines, handle_event) and the retry queue.             *)
(*   - the list, sorted-set and search indexes, the relationship and tag   *)
(*     reads of the users, and the processors of the factory               *)
(*     (run_processors).                                                   *)
(***************************************************************************)
EXTENDS Integers, Sequences, FiniteSets, TLC

\* ---------------------------------------------------------------- bounds
MaxCallers == 3
MaxCount == 1
MaxPool == 3
MaxLimit == 3
MaxFeed == 2
EventsLimit == 2
MaxValues == 4
MaxPuts == 2
MaxRange == 3
UsizeBits == 16
MaxConcValues == 2
MaxRenames == 2
MaxBatch == 2
MaxIds == 3
MaxKeys == 2
MaxTagUsers == 2

\* ------------------------------------------------------------- variables
VARIABLES
    counts_index,     \* the stored counts record of the entity, or NoRecord
    counts_initial,   \* the record the entity held before any caller ran
    nx_k,             \* number of concurrent callers of put_to_index_nx
    nx_pc,            \* caller -> "idle" | "called" | "returned"
    nx_arg,           \* caller -> the record passed as self
    nx_ret,           \* caller -> the boolean returned (FALSE until returned)
    shutdown,         \* the value of the shutdown watch channel
    hs_priority,      \* what homeservers_by_priority() returns
    hs_limit,         \* monitored_homeservers_limit()
    hs_outcome,       \* homeserver -> what its build / run did ("none" before)
    ra_pc,            \* run_all: "start" | "check" | "build" | "run" | "done" | "failed"
    ra_list,          \* run_all: hs_ids, the result of pre_run_all
    ra_idx,           \* run_all: position of the loop in hs_ids
    ra_stats,         \* run_all: run_stats
    rd_pc,            \* run_default: "start" | "build" | "run" | "done"
    rd_stats,         \* run_default: run_stats
    feed,             \* the event feed of the homeserver, one record per line
    index_cursor,     \* the homeserver's cursor as persisted in the index
    retry_queue,      \* the retry index: the RetryEvent records, each with its key
    ep_pc,            \* EventProcessor: "idle" | "lines" | "persist" | "handle"
                      \*   | "retry_put" | "done" | "failed"
    ep_cursor,        \* EventProcessor: self.homeserver.cursor
    ep_polled_from,   \* EventProcessor: the cursor sent with the last poll
    ep_lines,         \* EventProcessor: lines, as positions of the feed
    ep_i,             \* EventProcessor: position of the loop in lines
    ep_outcome,       \* EventProcessor: what became of each line of the batch
    ep_dispatched,    \* EventProcessor: the events handed to a handler, in order
    ls_list,          \* lists: the list stored under the key (<<>> when absent)
    ls_pc,            \* lists: "idle" | "returned" (a call of put has just returned)
    ls_prev,          \* lists: the list before the put that has just returned
    ls_args,          \* lists: the values of the put that has just returned
    ls_first,         \* lists: the values passed so far, each at its first occurrence
    ls_n,             \* lists: number of puts made
    ls_skip,          \* lists: skip of the get_range that has just returned
    ls_limit,         \* lists: limit of the get_range that has just returned
    ls_result,        \* lists: what the get_range that has just returned gave
    lc_pc,            \* lists: concurrent caller of put -> "idle" | "invoked" | "done"
    lc_args,          \* lists: concurrent caller of put -> the values it passed
    sx_name,          \* search: the members of the sorted set Sorted:Users:Name
    sx_id,            \* search: the members of the sorted set Sorted:Users:ID
    sx_hist,          \* search: user id -> what the calls made so far did to it
    sx_pc,            \* search: "idle" | "read" (get_by_name has just returned)
    sx_prefix,        \* search: the prefix of the get_by_name that has just returned
    sx_result,        \* search: what the get_by_name that has just returned gave
    sc_pc,            \* search: concurrent task -> its position in put_to_index
    sc_details,       \* search: concurrent task -> the details_list it passed
    sc_found,         \* search: concurrent task -> its records_to_delete
    rl_counts,        \* relationships: the users that have a counts record
    rl_followers,     \* relationships: the Followers sets, as pairs <<key, member>>
    rl_muted,         \* relationships: the Muted sets, as pairs <<key, member>>
    rl_pc,            \* relationships: "idle" | "read" (get_by_ids has just returned)
                      \*   | "read_one" (get_by_id has just returned)
    rl_user_ids,      \* relationships: user_ids of the call that has just returned
    rl_viewer,        \* relationships: viewer_id of the call that has just returned
    rl_result,        \* relationships: what the call that has just returned gave
    zs_store,         \* sorted sets: key -> its <<member, score>> pairs ({}: no key)
    zs_pc,            \* sorted sets: "idle" | "read"
    zs_keys,          \* sorted sets: keys of the read that has just returned
    zs_skip,          \* sorted sets: skip of the read that has just returned
    zs_limit,         \* sorted sets: limit of the read that has just returned
    zs_sorting,       \* sorted sets: sorting of the read that has just returned
    zs_result,        \* sorted sets: what the read that has just returned gave
    tg_live,          \* tags: the tags that exist, as <<tagger, tagged, label>>
    tg_search,        \* tags: the labels in the tag search index
    tg_pc,            \* tags: "idle" | "read"
    tg_label,         \* tags: the label of the search that has just returned
    tg_result,        \* tags: what the search that has just returned gave
    tg_last,          \* tags: the last tag event handled, <<"none">> before any
    tu_sorted,        \* user tags: <<is_cache, user>> -> the sorted set of its labels,
                      \*   as <<label, score>> pairs ({}: no key)
    tu_sets,          \* user tags: <<is_cache, user, label>> -> the set of taggers
    tu_graph,         \* user tags: user -> the tags the graph holds for it, if any
    tu_pc,            \* user tags: "idle" | "read" (get_by_ids has just returned)
    tu_args,          \* user tags: the arguments of the call that has just returned
    tu_result,        \* user tags: what the call that has just returned gave
    tu_queried,       \* user tags: the users the call asked the graph about, in order
    fp_pc,            \* run_processors: "start" | "build" | "run" | "done" | "panicked"
    fp_list,          \* run_processors: hs_ids, as returned by the graph
    fp_idx,           \* run_processors: position of the loop in hs_ids
    fp_log            \* run_processors: what was done so far, in order

counts_vars == <<counts_index, counts_initial, nx_k, nx_pc, nx_arg, nx_ret>>

runner_vars == <<shutdown, hs_priority, hs_limit, hs_outcome,
                 ra_pc, ra_list, ra_idx, ra_stats, rd_pc, rd_stats>>

proc_vars == <<feed, index_cursor, retry_queue, ep_pc, ep_cursor, ep_polled_from,
               ep_lines, ep_i, ep_outcome, ep_dispatched>>

lists_vars == <<ls_list, ls_pc, ls_prev, ls_args, ls_first, ls_n,
                ls_skip, ls_limit, ls_result, lc_pc, lc_args>>

search_vars == <<sx_name, sx_id, sx_hist, sx_pc, sx_prefix, sx_result,
                 sc_pc, sc_details, sc_found>>

rel_vars == <<rl_counts, rl_followers, rl_muted, rl_pc, rl_user_ids, rl_viewer,
              rl_result>>

zs_vars == <<zs_store, zs_pc, zs_keys, zs_skip, zs_limit, zs_sorting, zs_result>>

tg_vars == <<tg_live, tg_search, tg_pc, tg_label, tg_result, tg_last>>

tu_vars == <<tu_sorted, tu_sets, tu_graph, tu_pc, tu_args, tu_result, tu_queried>>

fp_vars == <<fp_pc, fp_list, fp_idx, fp_log>>

late_vars == <<tu_vars, fp_vars>>

index_vars == <<search_vars, rel_vars, zs_vars, tg_vars, late_vars>>

vars == <<counts_vars, runner_vars, proc_vars, lists_vars, index_vars>>

\* ------------------------------------------------------ the counts index
NoRecord == [absent |-> TRUE]

\* UserCounts, by the fields the tests read back
CountsRecords ==
    [followers : 0..MaxCount, following : 0..MaxCount, posts : 0..MaxCount]

\* UserCounts::default()
DefaultCounts == [followers |-> 0, following |-> 0, posts |-> 0]

Callers == 1..MaxCallers

\* The records a caller may pass as the value to create
NxArgs == {[followers |-> n, following |-> n, posts |-> n] : n \in 0..MaxCount}

\* A create-if-absent that overwrites an existing record (a plain SET).
put_to_index_nx_overwrite(stored, value) ==
    [index |-> value, created |-> stored = NoRecord]

\* A create-if-absent that reports creation whatever it found.
put_to_index_nx_always_true(stored, value) ==
    [index |-> IF stored = NoRecord THEN value ELSE stored, created |-> TRUE]

\* RedisOps::put_to_index_nx: one atomic server-side SET .. NX. The record is
\* written only when the key holds nothing; the result tells whether it was.
put_to_index_nx(stored, value) ==
    IF stored = NoRecord
    THEN [index |-> value, created |-> TRUE]
    ELSE [index |-> stored, created |-> FALSE]

\* The counts index with no caller (for the runs that do not exercise it)
CountsQuiet ==
    /\ counts_index = NoRecord
    /\ counts_initial = NoRecord
    /\ nx_k = 1
    /\ nx_pc = [c \in Callers |-> "returned"]
    /\ nx_arg = [c \in Callers |-> DefaultCounts]
    /\ nx_ret = [c \in Callers |-> FALSE]

CountsInit ==
    /\ counts_index \in {NoRecord} \cup CountsRecords
    /\ counts_initial = counts_index
    /\ nx_k \in 1..MaxCallers
    /\ nx_pc = [c \in Callers |-> "idle"]
    /\ nx_arg = [c \in Callers |-> DefaultCounts]
    /\ nx_ret = [c \in Callers |-> FALSE]

\* A task is spawned with its own record and issues the request.
NxCall(c, value) ==
    /\ c <= nx_k
    /\ nx_pc[c] = "idle"
    /\ nx_pc' = [nx_pc EXCEPT ![c] = "called"]
    /\ nx_arg' = [nx_arg EXCEPT ![c] = value]
    /\ UNCHANGED <<counts_index, counts_initial, nx_k, nx_ret, runner_vars, proc_vars, lists_vars, index_vars>>

\* The store executes one caller's request and the caller gets its answer.
NxExecute(c) ==
    /\ nx_pc[c] = "called"
    /\ LET r == put_to_index_nx(counts_index, nx_arg[c])
       IN  /\ counts_index' = r.index
           /\ nx_ret' = [nx_ret EXCEPT ![c] = r.created]
    /\ nx_pc' = [nx_pc EXCEPT ![c] = "returned"]
    /\ UNCHANGED <<counts_initial, nx_k, nx_arg, runner_vars, proc_vars, lists_vars, index_vars>>

CountsNext ==
    \/ \E c \in Callers, value \in NxArgs : NxCall(c, value)
    \/ \E c \in Callers : NxExecute(c)


\* ------------------------------------------- the multi-homeserver runner
Min(a, b) == IF a < b THEN a ELSE b

Range(seq) == {seq[i] : i \in DOMAIN seq}

\* default_homeserver()
DefaultHs == "D"

\* The homeservers of the graph other than the default one
PoolHs == {"hs" \o ToString(i) : i \in 1..MaxPool}

AllHs == PoolHs \cup {DefaultHs}

\* Sequences over a set without repetition
Orderings(S) ==
    {q \in UNION {[1..n -> S] : n \in 0..Cardinality(S)} :
        \A i, j \in DOMAIN q : i # j => q[i] # q[j]}

\* homeservers_by_priority(): every homeserver id of the graph except the
\* default one, in priority order.
\* A priority list that may hold the default homeserver as well.
homeservers_by_priority_with_default ==
    UNION {Orderings(S) : S \in SUBSET AllHs}

homeservers_by_priority == UNION {Orderings(S) : S \in SUBSET PoolHs}

\* ProcessorRunStatus
ProcessorRunStatus == {"Ok", "Error", "Panic", "Timeout", "FailedToBuild"}

\* What a homeserver's processor did: its build failed, or its run() returned
\* Ok, Err(Internal), Err(Panicked) or Err(TimedOut).
RunResults == {"Ok", "Internal", "Panicked", "TimedOut"}
Outcomes == RunResults \cup {"BuildErr"}

\* A limit applied from the wrong end of the list.
pre_run_all_last(hs_ids, limit) ==
    SubSeq(hs_ids, Len(hs_ids) - Min(limit, Len(hs_ids)) + 1, Len(hs_ids))

\* pre_run_all: hs_ids[..min(limit, len)]
pre_run_all(hs_ids, limit) ==
    LET max_index == Min(limit, Len(hs_ids))
    IN  SubSeq(hs_ids, 1, max_index)

\* Panics reported as plain errors.
StatusOfRun_panic_as_error(result) ==
    CASE result = "Ok" -> "Ok"
      [] result = "Internal" -> "Error"
      [] result = "Panicked" -> "Error"
      [] result = "TimedOut" -> "Timeout"

\* The match on event_processor.run().await
StatusOfRun(result) ==
    CASE result = "Ok" -> "Ok"
      [] result = "Internal" -> "Error"
      [] result = "Panicked" -> "Panic"
      [] result = "TimedOut" -> "Timeout"

\* RunAllProcessorsStats::add_run_result (the duration is not modelled)
add_run_result(stats, hs_id, status) ==
    Append(stats, [hs_id |-> hs_id, status |-> status])

\* RunAllProcessorsStats::count_ok, count_error, count_panic, ...
count_status(stats, status) ==
    Cardinality({i \in DOMAIN stats : stats[i].status = status})

\* post_run_all: logs the counts, returns the statistics unchanged in content
post_run_all(stats) == stats

RunnerQuiet ==
    /\ shutdown = FALSE
    /\ hs_priority = <<>>
    /\ hs_limit = 0
    /\ hs_outcome = [h \in AllHs |-> "none"]
    /\ ra_pc = "done"
    /\ ra_list = <<>>
    /\ ra_idx = 1
    /\ ra_stats = <<>>
    /\ rd_pc = "done"
    /\ rd_stats = <<>>

RunnerInit ==
    /\ shutdown = FALSE
    /\ hs_priority \in homeservers_by_priority
    /\ hs_limit \in 0..MaxLimit
    /\ hs_outcome = [h \in AllHs |-> "none"]
    /\ ra_pc = "start"
    /\ ra_list = <<>>
    /\ ra_idx = 1
    /\ ra_stats = <<>>
    /\ rd_pc = "start"
    /\ rd_stats = <<>>

\* The shutdown signal is sent on the watch channel.
Shutdown ==
    /\ ~shutdown
    /\ shutdown' = TRUE
    /\ UNCHANGED <<hs_priority, hs_limit, hs_outcome, ra_pc, ra_list, ra_idx,
                   ra_stats, rd_pc, rd_stats, counts_vars, proc_vars, lists_vars, index_vars>>

\* run_all: let hs_ids = self.pre_run_all().await?
RunAllStart ==
    /\ ra_pc = "start"
    /\ ra_list' = pre_run_all(hs_priority, hs_limit)
    /\ ra_pc' = "check"
    /\ UNCHANGED <<shutdown, hs_priority, hs_limit, hs_outcome, ra_idx,
                   ra_stats, rd_pc, rd_stats, counts_vars, proc_vars, lists_vars, index_vars>>

\* run_all: homeservers_by_priority() fails and the error is propagated by ?
RunAllListFails ==
    /\ ra_pc = "start"
    /\ ra_pc' = "failed"
    /\ UNCHANGED <<shutdown, hs_priority, hs_limit, hs_outcome, ra_list, ra_idx,
                   ra_stats, rd_pc, rd_stats, counts_vars, proc_vars, lists_vars, index_vars>>

\* A loop head that does not look at the shutdown flag.
RunAllCheck_no_shutdown_check ==
    /\ ra_pc = "check"
    /\ ra_pc' = IF ra_idx > Len(ra_list) THEN "done" ELSE "build"
    /\ ra_stats' = IF ra_idx > Len(ra_list) THEN post_run_all(ra_stats) ELSE ra_stats
    /\ UNCHANGED <<shutdown, hs_priority, hs_limit, hs_outcome, ra_list, ra_idx,
                   rd_pc, rd_stats, counts_vars, proc_vars, lists_vars, index_vars>>

\* run_all: the head of the loop. The loop ends when the list is exhausted or
\* the shutdown flag is set (break); post_run_all follows and the call returns.
RunAllCheck ==
    /\ ra_pc = "check"
    /\ IF ra_idx > Len(ra_list) \/ shutdown
       THEN /\ ra_pc' = "done"
            /\ ra_stats' = post_run_all(ra_stats)
       ELSE /\ ra_pc' = "build"
            /\ ra_stats' = ra_stats
    /\ UNCHANGED <<shutdown, hs_priority, hs_limit, hs_outcome, ra_list, ra_idx,
                   rd_pc, rd_stats, counts_vars, proc_vars, lists_vars, index_vars>>

\* A build failure that ends the loop.
RunAllBuild_fail_aborts ==
    /\ ra_pc = "build"
    /\ \E ok \in BOOLEAN :
          IF ok
          THEN /\ ra_pc' = "run"
               /\ UNCHANGED <<hs_outcome, ra_stats, ra_idx>>
          ELSE /\ hs_outcome' = [hs_outcome EXCEPT ![ra_list[ra_idx]] = "BuildErr"]
               /\ ra_stats' = add_run_result(ra_stats, ra_list[ra_idx], "FailedToBuild")
               /\ ra_idx' = Len(ra_list) + 1
               /\ ra_pc' = "check"
    /\ UNCHANGED <<shutdown, hs_priority, hs_limit, ra_list, rd_pc, rd_stats,
                   counts_vars, proc_vars, lists_vars, index_vars>>

\* run_all: self.build(hs_id).await. On Err the status FailedToBuild is
\* recorded and the loop goes on; on Ok the processor is run.
RunAllBuild ==
    /\ ra_pc = "build"
    /\ \E ok \in BOOLEAN :
          IF ok
          THEN /\ ra_pc' = "run"
               /\ UNCHANGED <<hs_outcome, ra_stats, ra_idx>>
          ELSE /\ hs_outcome' = [hs_outcome EXCEPT ![ra_list[ra_idx]] = "BuildErr"]
               /\ ra_stats' = add_run_result(ra_stats, ra_list[ra_idx], "FailedToBuild")
               /\ ra_idx' = ra_idx + 1
               /\ ra_pc' = "check"
    /\ UNCHANGED <<shutdown, hs_priority, hs_limit, ra_list, rd_pc, rd_stats,
                   counts_vars, proc_vars, lists_vars, index_vars>>

\* A run whose result is left out of the statistics when it is Ok.
RunAllRun_ok_unrecorded ==
    /\ ra_pc = "run"
    /\ \E result \in RunResults :
          /\ hs_outcome' = [hs_outcome EXCEPT ![ra_list[ra_idx]] = result]
          /\ ra_stats' = IF result = "Ok" THEN ra_stats
                         ELSE add_run_result(ra_stats, ra_list[ra_idx],
                                             StatusOfRun(result))
    /\ ra_idx' = ra_idx + 1
    /\ ra_pc' = "check"
    /\ UNCHANGED <<shutdown, hs_priority, hs_limit, ra_list, rd_pc, rd_stats,
                   counts_vars, proc_vars, lists_vars, index_vars>>

\* run_all: event_processor.run().await returns and its result is recorded.
RunAllRun ==
    /\ ra_pc = "run"
    /\ \E result \in RunResults :
          /\ hs_outcome' = [hs_outcome EXCEPT ![ra_list[ra_idx]] = result]
          /\ ra_stats' = add_run_result(ra_stats, ra_list[ra_idx], StatusOfRun(result))
    /\ ra_idx' = ra_idx + 1
    /\ ra_pc' = "check"
    /\ UNCHANGED <<shutdown, hs_priority, hs_limit, ra_list, rd_pc, rd_stats,
                   counts_vars, proc_vars, lists_vars, index_vars>>

\* A run_default that does not look at the shutdown flag.
RunDefaultStart_no_shutdown_check ==
    /\ rd_pc = "start"
    /\ rd_pc' = "build"
    /\ rd_stats' = rd_stats
    /\ UNCHANGED <<shutdown, hs_priority, hs_limit, hs_outcome, ra_pc, ra_list,
                   ra_idx, ra_stats, counts_vars, proc_vars, lists_vars, index_vars>>

\* run_default: the shutdown check on entry. With the flag set the empty
\* statistics are returned at once.
RunDefaultStart ==
    /\ rd_pc = "start"
    /\ IF shutdown
       THEN /\ rd_pc' = "done"
            /\ rd_stats' = post_run_all(rd_stats)
       ELSE /\ rd_pc' = "build"
            /\ rd_stats' = rd_stats
    /\ UNCHANGED <<shutdown, hs_priority, hs_limit, hs_outcome, ra_pc, ra_list,
                   ra_idx, ra_stats, counts_vars, proc_vars, lists_vars, index_vars>>

\* A build failure that is returned without being recorded.
RunDefaultBuild_fail_unrecorded ==
    /\ rd_pc = "build"
    /\ \E ok \in BOOLEAN :
          IF ok
          THEN /\ rd_pc' = "run"
               /\ UNCHANGED <<hs_outcome, rd_stats>>
          ELSE /\ hs_outcome' = [hs_outcome EXCEPT ![DefaultHs] = "BuildErr"]
               /\ rd_stats' = rd_stats
               /\ rd_pc' = "done"
    /\ UNCHANGED <<shutdown, hs_priority, hs_limit, ra_pc, ra_list, ra_idx,
                   ra_stats, counts_vars, proc_vars, lists_vars, index_vars>>

\* run_default: self.build(default_hs_id).await
RunDefaultBuild ==
    /\ rd_pc = "build"
    /\ \E ok \in BOOLEAN :
          IF ok
          THEN /\ rd_pc' = "run"
               /\ UNCHANGED <<hs_outcome, rd_stats>>
          ELSE /\ hs_outcome' = [hs_outcome EXCEPT ![DefaultHs] = "BuildErr"]
               /\ rd_stats' = post_run_all(
                                 add_run_result(rd_stats, DefaultHs, "FailedToBuild"))
               /\ rd_pc' = "done"
    /\ UNCHANGED <<shutdown, hs_priority, hs_limit, ra_pc, ra_list, ra_idx,
                   ra_stats, counts_vars, proc_vars, lists_vars, index_vars>>

\* A run_default that records the result of the default homeserver only
\* once run_all has returned.
RunDefaultRun_after_run_all ==
    /\ rd_pc = "run"
    /\ ra_pc \in {"done", "failed"}
    /\ \E result \in RunResults :
          /\ hs_outcome' = [hs_outcome EXCEPT ![DefaultHs] = result]
          /\ rd_stats' = post_run_all(
                            add_run_result(rd_stats, DefaultHs, StatusOfRun(result)))
    /\ rd_pc' = "done"
    /\ UNCHANGED <<shutdown, hs_priority, hs_limit, ra_pc, ra_list, ra_idx,
                   ra_stats, counts_vars, proc_vars, lists_vars, index_vars>>

\* run_default: event_processor.run().await returns, the result is recorded
\* and the statistics are returned.
RunDefaultRun ==
    /\ rd_pc = "run"
    /\ \E result \in RunResults :
          /\ hs_outcome' = [hs_outcome EXCEPT ![DefaultHs] = result]
          /\ rd_stats' = post_run_all(
                            add_run_result(rd_stats, DefaultHs, StatusOfRun(result)))
    /\ rd_pc' = "done"
    /\ UNCHANGED <<shutdown, hs_priority, hs_limit, ra_pc, ra_list, ra_idx,
                   ra_stats, counts_vars, proc_vars, lists_vars, index_vars>>

RunnerNext ==
    \/ Shutdown
    \/ RunAllStart
    \/ RunAllListFails
    \/ RunAllCheck
    \/ RunAllBuild
    \/ RunAllRun
    \/ RunDefaultStart
    \/ RunDefaultBuild
    \/ RunDefaultRun

\* -------------------------------------------- the homeserver event processor
\* The lines a homeserver can send. A line "cursor: c" carries as c its own
\* position in the feed, so that a poll from c yields the lines after it.
\*   cursor      "cursor: <c>"
\*   badcursor   starts with "cursor:" but not with "cursor: "
\*   unparsable  Event::parse_event yields no event: Err (logged) or Ok(None)
\*   blank       empty, or white space only
\*   event       Event::parse_event returns Ok(Some(event))
EventTypes == {"PUT", "DEL"}

Uris == {"uri1", "uri2", "uri_nokey"}

EventLines ==
    {[kind |-> "event", op |-> "PUT", uri |-> "uri1"],
     [kind |-> "event", op |-> "DEL", uri |-> "uri1"],
     [kind |-> "event", op |-> "PUT", uri |-> "uri2"],
     [kind |-> "event", op |-> "PUT", uri |-> "uri_nokey"]}

OtherLines ==
    {[kind |-> k, op |-> "-", uri |-> "-"] :
        k \in {"cursor", "badcursor", "unparsable", "blank"}}

Lines == EventLines \cup OtherLines

Feeds == UNION {[1..n -> Lines] : n \in 0..MaxFeed}

\* What event.handle() returns: Ok, or an error that is an
\* EventProcessorError (InvalidEventLine, PubkyClientError, another variant)
\* or some other boxed error.
RetryableErrors == {"PubkyClientError", "OtherProcessorError"}
HandlerResults == {"Ok", "InvalidEventLine", "NotProcessorError"} \cup RetryableErrors

\* RetryEvent::generate_index_key: the compressed index of the uri, None when
\* no index can be derived from it.
generate_index_key(uri) ==
    IF uri = "uri_nokey" THEN "None" ELSE "idx(" \o uri \o ")"

NoRetryInfo == [none |-> TRUE]

\* Every processor error discarded, retryable or not.
extract_retry_event_info_discards_all(event, error) == NoRetryInfo

\* A classification that wraps malformed-input errors as retry events too.
extract_retry_event_info_retries_invalid(event, error) ==
    IF error \notin RetryableErrors \cup {"InvalidEventLine"} THEN NoRetryInfo
    ELSE LET index == generate_index_key(event.uri)
         IN  IF index = "None" THEN NoRetryInfo
             ELSE [index_key |-> event.op \o ":" \o index,
                   retry_event |-> [error_type |-> error]]

\* extract_retry_event_info
extract_retry_event_info(event, error) ==
    IF error = "InvalidEventLine" THEN NoRetryInfo
    ELSE IF error \notin RetryableErrors THEN NoRetryInfo
    ELSE LET index == generate_index_key(event.uri)
         IN  IF index = "None" THEN NoRetryInfo
             ELSE [index_key |-> event.op \o ":" \o index,
                   retry_event |-> [error_type |-> error]]

\* The keys the retry index can hold
RetryKeys ==
    {op \o ":" \o generate_index_key(uri) :
        op \in EventTypes, uri \in {u \in Uris : generate_index_key(u) # "None"}}

\* The records the retry index can hold
RetryRecords == [index_key : RetryKeys, error_type : RetryableErrors]

\* An enqueue that adds a record without looking for one under the same key.
RetryEvent_put_to_index_accumulates(queue, index_key, retry_event) ==
    queue \cup {[index_key |-> index_key, error_type |-> retry_event.error_type]}

\* RetryEvent::put_to_index: the record is stored under its key, in the place
\* of the record the key held before.
RetryEvent_put_to_index(queue, index_key, retry_event) ==
    {r \in queue : r.index_key # index_key}
        \cup {[index_key |-> index_key, error_type |-> retry_event.error_type]}

\* The homeserver's answer to GET /events/?cursor=c&limit=l, as feed positions
Response(c, limit) ==
    LET last == Min(c + limit, Len(feed))
    IN  [k \in 1..(IF last > c THEN last - c ELSE 0) |-> c + k]

\* str::trim on the response text, whose lines are given by their feed
\* positions: the white space at both ends goes, and with it every blank line
\* before the first and after the last line that is not blank.
trim(body) ==
    LET solid == {k \in DOMAIN body : feed[body[k]].kind # "blank"}
    IN  IF solid = {} THEN <<>>
        ELSE SubSeq(body, CHOOSE k \in solid : \A m \in solid : k <= m,
                          CHOOSE k \in solid : \A m \in solid : m <= k)

\* A poll that splits the response into lines as it came.
poll_events_untrimmed(cursor) == Response(cursor, EventsLimit)

\* poll_events: response_text.trim().lines() of the answer to the request
\* from cursor; the empty sequence stands for Ok(None).
poll_events(cursor) == trim(Response(cursor, EventsLimit))

NotYet == [what |-> "none", error |-> "-"]

ProcQuiet ==
    /\ feed = <<>>
    /\ index_cursor = 0
    /\ retry_queue = {}
    /\ ep_pc = "done"
    /\ ep_cursor = 0
    /\ ep_polled_from = 0
    /\ ep_lines = <<>>
    /\ ep_i = 1
    /\ ep_outcome = <<>>
    /\ ep_dispatched = <<>>

ProcInit ==
    /\ feed \in Feeds
    /\ index_cursor = 0
    /\ retry_queue = {}
    /\ ep_pc = "idle"
    /\ ep_cursor = 0
    /\ ep_polled_from = 0
    /\ ep_lines = <<>>
    /\ ep_i = 1
    /\ ep_outcome = <<>>
    /\ ep_dispatched = <<>>

\* The line the loop is at
CurLine == feed[ep_lines[ep_i]]

SetOutcome(what, error) ==
    ep_outcome' = [ep_outcome EXCEPT ![ep_i] = [what |-> what, error |-> error]]

\* A poll that stores the cursor of the batch before any line is processed.
Poll_persists_cursor_eagerly ==
    /\ ep_pc = "idle"
    /\ ep_polled_from' = ep_cursor
    /\ LET lines == poll_events(ep_cursor)
           cs == {k \in DOMAIN lines : feed[lines[k]].kind = "cursor"}
       IN  /\ IF lines = <<>>
              THEN /\ ep_pc' = "done"
              ELSE /\ ep_pc' = "lines"
           /\ ep_lines' = lines
           /\ ep_outcome' = [k \in DOMAIN lines |-> NotYet]
           /\ index_cursor' = IF cs = {} THEN index_cursor
                              ELSE lines[CHOOSE k \in cs : \A m \in cs : m <= k]
    /\ ep_i' = 1
    /\ ep_dispatched' = <<>>
    /\ UNCHANGED <<feed, retry_queue, ep_cursor, counts_vars, runner_vars, lists_vars, index_vars>>

\* run / poll_events: the feed is fetched from the current cursor. No line
\* means Ok(None) and run returns; otherwise process_event_lines starts.
Poll ==
    /\ ep_pc = "idle"
    /\ ep_polled_from' = ep_cursor
    /\ LET lines == poll_events(ep_cursor)
       IN  /\ IF lines = <<>>
              THEN /\ ep_pc' = "done"
              ELSE /\ ep_pc' = "lines"
           /\ ep_lines' = lines
           /\ ep_outcome' = [k \in DOMAIN lines |-> NotYet]
    /\ ep_i' = 1
    /\ ep_dispatched' = <<>>
    /\ UNCHANGED <<feed, index_cursor, retry_queue, ep_cursor, counts_vars,
                   runner_vars, lists_vars, index_vars>>

\* run / poll_events: the client or the request fails and run returns Err.
PollFails ==
    /\ ep_pc = "idle"
    /\ ep_polled_from' = ep_cursor
    /\ ep_pc' = "failed"
    /\ UNCHANGED <<feed, index_cursor, retry_queue, ep_cursor, ep_lines, ep_i,
                   ep_outcome, ep_dispatched, counts_vars, runner_vars, lists_vars, index_vars>>

\* A loop that passes over event lines without handling them.
ProcLine_skips_events ==
    /\ ep_pc = "lines"
    /\ IF ep_i > Len(ep_lines) \/ shutdown
       THEN /\ ep_pc' = "done"
            /\ UNCHANGED <<ep_cursor, ep_i, ep_outcome, ep_dispatched>>
       ELSE IF CurLine.kind = "cursor"
       THEN /\ ep_cursor' = ep_lines[ep_i]
            /\ ep_pc' = "persist"
            /\ UNCHANGED <<ep_i, ep_outcome, ep_dispatched>>
       ELSE /\ ep_i' = ep_i + 1
            /\ UNCHANGED <<ep_pc, ep_cursor, ep_outcome, ep_dispatched>>
    /\ UNCHANGED <<feed, index_cursor, retry_queue, ep_polled_from, ep_lines,
                   counts_vars, runner_vars, lists_vars, index_vars>>

\* A loop that reads the shutdown flag before its first line only.
ProcLine_checks_shutdown_once ==
    /\ ep_pc = "lines"
    /\ IF ep_i > Len(ep_lines) \/ (shutdown /\ ep_i = 1)
       THEN /\ ep_pc' = "done"
            /\ UNCHANGED <<ep_cursor, ep_i, ep_outcome, ep_dispatched>>
       ELSE CASE CurLine.kind = "cursor" ->
                   /\ ep_cursor' = ep_lines[ep_i]
                   /\ ep_pc' = "persist"
                   /\ UNCHANGED <<ep_i, ep_outcome, ep_dispatched>>
              [] CurLine.kind \in {"badcursor", "unparsable", "blank"} ->
                   /\ SetOutcome(CurLine.kind, "-")
                   /\ ep_i' = ep_i + 1
                   /\ UNCHANGED <<ep_pc, ep_cursor, ep_dispatched>>
              [] CurLine.kind = "event" ->
                   /\ ep_dispatched' = Append(ep_dispatched, ep_i)
                   /\ ep_pc' = "handle"
                   /\ UNCHANGED <<ep_cursor, ep_i, ep_outcome>>
    /\ UNCHANGED <<feed, index_cursor, retry_queue, ep_polled_from, ep_lines,
                   counts_vars, runner_vars, lists_vars, index_vars>>

\* A loop that hands an event to its handler and goes on to the next line
\* without waiting for the handler to return.
ProcLine_dispatches_ahead ==
    /\ ep_pc = "lines"
    /\ IF ep_i > Len(ep_lines) \/ shutdown
       THEN /\ ep_pc' = "done"
            /\ UNCHANGED <<ep_cursor, ep_i, ep_outcome, ep_dispatched>>
       ELSE CASE CurLine.kind = "cursor" ->
                   /\ ep_cursor' = ep_lines[ep_i]
                   /\ ep_pc' = "persist"
                   /\ UNCHANGED <<ep_i, ep_outcome, ep_dispatched>>
              [] CurLine.kind \in {"badcursor", "unparsable", "blank"} ->
                   /\ SetOutcome(CurLine.kind, "-")
                   /\ ep_i' = ep_i + 1
                   /\ UNCHANGED <<ep_pc, ep_cursor, ep_dispatched>>
              [] CurLine.kind = "event" ->
                   /\ ep_dispatched' = Append(ep_dispatched, ep_i)
                   /\ ep_i' = ep_i + 1
                   /\ UNCHANGED <<ep_pc, ep_cursor, ep_outcome>>
    /\ UNCHANGED <<feed, index_cursor, retry_queue, ep_polled_from, ep_lines,
                   counts_vars, runner_vars, lists_vars, index_vars>>

\* process_event_lines: the head of the loop. With the shutdown flag set, or
\* past the last line, Ok(()) is returned. A cursor line sets the cursor in
\* memory and starts its persistence; a line that starts with "cursor:" but
\* has no "cursor: " prefix is passed over; any other line is parsed and, when
\* it yields an event, handed to handle_event.
ProcLine ==
    /\ ep_pc = "lines"
    /\ IF ep_i > Len(ep_lines) \/ shutdown
       THEN /\ ep_pc' = "done"
            /\ UNCHANGED <<ep_cursor, ep_i, ep_outcome, ep_dispatched>>
       ELSE CASE CurLine.kind = "cursor" ->
                   /\ ep_cursor' = ep_lines[ep_i]
                   /\ ep_pc' = "persist"
                   /\ UNCHANGED <<ep_i, ep_outcome, ep_dispatched>>
              [] CurLine.kind \in {"badcursor", "unparsable", "blank"} ->
                   /\ SetOutcome(CurLine.kind, "-")
                   /\ ep_i' = ep_i + 1
                   /\ UNCHANGED <<ep_pc, ep_cursor, ep_dispatched>>
              [] CurLine.kind = "event" ->
                   /\ ep_dispatched' = Append(ep_dispatched, ep_i)
                   /\ ep_pc' = "handle"
                   /\ UNCHANGED <<ep_cursor, ep_i, ep_outcome>>
    /\ UNCHANGED <<feed, index_cursor, retry_queue, ep_polled_from, ep_lines,
                   counts_vars, runner_vars, lists_vars, index_vars>>

\* A cursor write whose failure is logged and passed over.
PersistCursor_failure_ignored ==
    /\ ep_pc = "persist"
    /\ \E ok \in BOOLEAN :
          IF ok
          THEN /\ index_cursor' = ep_cursor
               /\ SetOutcome("cursor", "-")
          ELSE /\ SetOutcome("cursor_failed", "-")
               /\ UNCHANGED index_cursor
    /\ ep_i' = ep_i + 1
    /\ ep_pc' = "lines"
    /\ UNCHANGED <<feed, retry_queue, ep_cursor, ep_polled_from, ep_lines,
                   ep_dispatched, counts_vars, runner_vars, lists_vars, index_vars>>

\* process_event_lines: self.homeserver.put_to_index().await? Either the
\* cursor is stored and the loop goes on, or the error is returned.
PersistCursor ==
    /\ ep_pc = "persist"
    /\ \E ok \in BOOLEAN :
          IF ok
          THEN /\ index_cursor' = ep_cursor
               /\ SetOutcome("cursor", "-")
               /\ ep_i' = ep_i + 1
               /\ ep_pc' = "lines"
          ELSE /\ SetOutcome("cursor_failed", "-")
               /\ ep_pc' = "failed"
               /\ UNCHANGED <<index_cursor, ep_i>>
    /\ UNCHANGED <<feed, retry_queue, ep_cursor, ep_polled_from, ep_lines,
                   ep_dispatched, counts_vars, runner_vars, lists_vars, index_vars>>

\* A handle_event that returns the error of an event without a retry key.
HandleEvent_no_key_aborts ==
    /\ ep_pc = "handle"
    /\ \E h \in HandlerResults :
          IF h = "Ok"
          THEN /\ SetOutcome("applied", "-")
               /\ ep_i' = ep_i + 1
               /\ ep_pc' = "lines"
          ELSE IF extract_retry_event_info(CurLine, h) = NoRetryInfo
          THEN /\ SetOutcome(CASE h = "InvalidEventLine" -> "discarded"
                               [] h \in RetryableErrors -> "no_key"
                               [] OTHER -> "unhandled", h)
               /\ IF h \in RetryableErrors
                  THEN ep_pc' = "failed" /\ UNCHANGED ep_i
                  ELSE ep_pc' = "lines" /\ ep_i' = ep_i + 1
          ELSE /\ SetOutcome("retrying", h)
               /\ ep_pc' = "retry_put"
               /\ UNCHANGED ep_i
    /\ UNCHANGED <<feed, index_cursor, retry_queue, ep_cursor, ep_polled_from,
                   ep_lines, ep_dispatched, counts_vars, runner_vars, lists_vars, index_vars>>

\* A handle_event that returns the handler's error to the loop (by ?).
HandleEvent_error_aborts ==
    /\ ep_pc = "handle"
    /\ \E h \in HandlerResults :
          IF h = "Ok"
          THEN /\ SetOutcome("applied", "-")
               /\ ep_i' = ep_i + 1
               /\ ep_pc' = "lines"
          ELSE /\ SetOutcome("unhandled", h)
               /\ ep_pc' = "failed"
               /\ UNCHANGED ep_i
    /\ UNCHANGED <<feed, index_cursor, retry_queue, ep_cursor, ep_polled_from,
                   ep_lines, ep_dispatched, counts_vars, runner_vars, lists_vars, index_vars>>

\* handle_event: event.handle(&self.moderation).await returns. On Ok the
\* event is applied. On Err the retry information is extracted: without it
\* the error is only logged, with it the retry record is about to be written.
HandleEvent ==
    /\ ep_pc = "handle"
    /\ \E h \in HandlerResults :
          IF h = "Ok"
          THEN /\ SetOutcome("applied", "-")
               /\ ep_i' = ep_i + 1
               /\ ep_pc' = "lines"
          ELSE IF extract_retry_event_info(CurLine, h) = NoRetryInfo
          THEN /\ SetOutcome(CASE h = "InvalidEventLine" -> "discarded"
                               [] h \in RetryableErrors -> "no_key"
                               [] OTHER -> "unhandled", h)
               /\ ep_i' = ep_i + 1
               /\ ep_pc' = "lines"
          ELSE /\ SetOutcome("retrying", h)
               /\ ep_pc' = "retry_put"
               /\ UNCHANGED ep_i
    /\ UNCHANGED <<feed, index_cursor, retry_queue, ep_cursor, ep_polled_from,
                   ep_lines, ep_dispatched, counts_vars, runner_vars, lists_vars, index_vars>>

\* A handle_event that returns the error of a failed retry write (by ?).
RetryPut_write_failure_aborts ==
    /\ ep_pc = "retry_put"
    /\ LET info == extract_retry_event_info(CurLine, ep_outcome[ep_i].error)
       IN  \E ok \in BOOLEAN :
              IF ok
              THEN /\ retry_queue' = RetryEvent_put_to_index(
                                         retry_queue, info.index_key, info.retry_event)
                   /\ SetOutcome("retried", ep_outcome[ep_i].error)
                   /\ ep_i' = ep_i + 1
                   /\ ep_pc' = "lines"
              ELSE /\ SetOutcome("write_failed", ep_outcome[ep_i].error)
                   /\ ep_pc' = "failed"
                   /\ UNCHANGED <<retry_queue, ep_i>>
    /\ UNCHANGED <<feed, index_cursor, ep_cursor, ep_polled_from, ep_lines,
                   ep_dispatched, counts_vars, runner_vars, lists_vars, index_vars>>

\* handle_event: retry_event.put_to_index(index_key).await. The record is
\* written under its key, or the write fails and the failure is logged;
\* handle_event returns Ok(()) in both cases.
RetryPut ==
    /\ ep_pc = "retry_put"
    /\ LET info == extract_retry_event_info(CurLine, ep_outcome[ep_i].error)
       IN  \E ok \in BOOLEAN :
              IF ok
              THEN /\ retry_queue' = RetryEvent_put_to_index(
                                         retry_queue, info.index_key, info.retry_event)
                   /\ SetOutcome("retried", ep_outcome[ep_i].error)
              ELSE /\ SetOutcome("write_failed", ep_outcome[ep_i].error)
                   /\ UNCHANGED retry_queue
    /\ ep_i' = ep_i + 1
    /\ ep_pc' = "lines"
    /\ UNCHANGED <<feed, index_cursor, ep_cursor, ep_polled_from, ep_lines,
                   ep_dispatched, counts_vars, runner_vars, lists_vars, index_vars>>

\* The process dies while a batch is being processed; what the processor held
\* in memory is lost, and the next processor is built as by Build.
Crash ==
    /\ ep_pc \in {"lines", "persist", "handle", "retry_put"}
    /\ ep_pc' = "idle"
    /\ ep_cursor' = index_cursor
    /\ ep_polled_from' = index_cursor
    /\ ep_lines' = <<>>
    /\ ep_i' = 1
    /\ ep_outcome' = <<>>
    /\ ep_dispatched' = <<>>
    /\ UNCHANGED <<feed, index_cursor, retry_queue, counts_vars, runner_vars, lists_vars, index_vars>>

\* EventProcessorFactory::build: every run is that of a newly built processor,
\* whose homeserver (and cursor) is read back by Homeserver::get_by_id.
Build ==
    /\ ep_pc \in {"done", "failed"}
    /\ ep_pc' = "idle"
    /\ ep_cursor' = index_cursor
    /\ ep_polled_from' = index_cursor
    /\ ep_lines' = <<>>
    /\ ep_i' = 1
    /\ ep_outcome' = <<>>
    /\ ep_dispatched' = <<>>
    /\ UNCHANGED <<feed, index_cursor, retry_queue, counts_vars, runner_vars, lists_vars, index_vars>>

ProcNext ==
    \/ Shutdown
    \/ Poll
    \/ PollFails
    \/ ProcLine
    \/ PersistCursor
    \/ HandleEvent
    \/ RetryPut
    \/ Crash
    \/ Build

\* ------------------------------------------------ the deduplicating list
ListValues == {"a", "b", "c", "d"}

\* The slices of values a caller can pass
ListArgs == UNION {[1..n -> ListValues] : n \in 0..MaxValues}

\* What LPOS answers when the value is not in the list (nil)
LuaNil == -1

\* redis.call('LPOS', key, value): the 0-based position of the first element
\* equal to value, nil when there is none (or no list).
LPOS(list, value) ==
    LET hits == {i \in DOMAIN list : list[i] = value}
    IN  IF hits = {} THEN LuaNil
        ELSE (CHOOSE i \in hits : \A j \in hits : i <= j) - 1

\* A negation that takes the number 0 for false, as C does.
LuaNot_zero_is_false(x) == x = LuaNil \/ x = 0

\* Lua's not: true of nil and false only; every number, 0 too, is true.
LuaNot(x) == x = LuaNil

\* The script of put, run atomically by the store: each value of ARGV in
\* turn is pushed at the tail unless LPOS finds it in the list.
RECURSIVE lists_put_script(_, _)
lists_put_script(list, argv) ==
    IF argv = <<>> THEN list
    ELSE LET value == Head(argv)
             exists == LPOS(list, value)
         IN  lists_put_script(IF LuaNot(exists) THEN Append(list, value) ELSE list,
                              Tail(argv))

\* An empty put taken for a request to drop the key
lists_put_empty_clears(list, values) ==
    IF values = <<>> THEN <<>> ELSE lists_put_script(list, values)

\* lists::put: nothing is done for an empty slice, otherwise the script runs.
lists_put(list, values) ==
    IF values = <<>> THEN list ELSE lists_put_script(list, values)

\* The elements of a sequence, each kept at its first occurrence only
FirstOccurrences(seq) ==
    SelectSeq([i \in DOMAIN seq |-> IF \E j \in 1..(i - 1) : seq[j] = seq[i]
                                      THEN "-" ELSE seq[i]],
              LAMBDA v : v # "-")

\* Option<usize>::None of the skip and limit arguments
NoUsize == -1

RangeArgs == {NoUsize} \cup 0..MaxRange

unwrap_or(opt, default) == IF opt = NoUsize THEN default ELSE opt

RECURSIVE Pow2(_)
Pow2(n) == IF n = 0 THEN 1 ELSE 2 * Pow2(n - 1)

usize_MAX == Pow2(UsizeBits) - 1

\* `x as isize` of a usize: the same bits read as two's complement
as_isize(x) == IF x >= Pow2(UsizeBits - 1) THEN x - Pow2(UsizeBits) ELSE x

\* isize arithmetic of the release build: the result modulo 2^bits
wrap_isize(x) ==
    ((x + Pow2(UsizeBits - 1)) % Pow2(UsizeBits)) - Pow2(UsizeBits - 1)

\* LRANGE key start stop: the elements at the 0-based positions start..stop,
\* both ends included; a negative index counts from the tail (-1 is the
\* last element), a start before the head is the head, a stop past the
\* tail is the tail, and start > stop or start past the tail is nothing.
LRANGE(list, start, stop) ==
    LET llen == Len(list)
        s0 == IF start < 0 THEN llen + start ELSE start
        e0 == IF stop < 0 THEN llen + stop ELSE stop
        s1 == IF s0 < 0 THEN 0 ELSE s0
        e1 == IF e0 >= llen THEN llen - 1 ELSE e0
    IN  IF s1 > e1 \/ s1 >= llen THEN <<>> ELSE SubSeq(list, s1 + 1, e1 + 1)

\* Option<Vec<String>>
NoRange == [is_some |-> FALSE, value |-> <<>>]

SomeRange(v) == [is_some |-> TRUE, value |-> v]

\* lists::get_range
get_range(list, skip, limit) ==
    LET skip_ == unwrap_or(skip, 0)
        limit_ == unwrap_or(limit, usize_MAX)
        start == as_isize(skip_)
        end == wrap_isize(wrap_isize(start + as_isize(limit_)) - 1)
        result == LRANGE(list, start, end)
    IN  IF Len(result) = 0 THEN NoRange ELSE SomeRange(result)

\* The tasks that call put on the key concurrently
Putters == {"p1", "p2"}

\* The slices they pass
ConcArgs == UNION {[1..n -> ListValues] : n \in 0..MaxConcValues}

ListsQuiet ==
    /\ ls_list = <<>>
    /\ ls_pc = "idle"
    /\ ls_prev = <<>>
    /\ ls_args = <<>>
    /\ ls_first = <<>>
    /\ ls_n = MaxPuts
    /\ ls_skip = NoUsize
    /\ ls_limit = NoUsize
    /\ ls_result = NoRange
    /\ lc_pc = [p \in Putters |-> "idle"]
    /\ lc_args = [p \in Putters |-> <<>>]

ListsInit ==
    /\ ls_list = <<>>
    /\ ls_pc = "idle"
    /\ ls_prev = <<>>
    /\ ls_args = <<>>
    /\ ls_first = <<>>
    /\ ls_n = 0
    /\ ls_skip = NoUsize
    /\ ls_limit = NoUsize
    /\ ls_result = NoRange
    /\ lc_pc = [p \in Putters |-> "idle"]
    /\ lc_args = [p \in Putters |-> <<>>]

\* One call of put on the key, up to its return
ListsPut(values) ==
    /\ ls_pc = "idle"
    /\ ls_pc' = "returned"
    /\ ls_n < MaxPuts
    /\ ls_n' = ls_n + 1
    /\ ls_prev' = ls_list
    /\ ls_args' = values
    /\ ls_list' = lists_put(ls_list, values)
    /\ ls_first' = FirstOccurrences(ls_first \o values)
    /\ UNCHANGED <<ls_skip, ls_limit, ls_result, lc_pc, lc_args,
                   counts_vars, runner_vars, proc_vars, index_vars>>

\* One call of get_range on the key, up to its return
ListsGetRange(skip, limit) ==
    /\ ls_pc = "idle"
    /\ ls_pc' = "read"
    /\ ls_skip' = skip
    /\ ls_limit' = limit
    /\ ls_result' = get_range(ls_list, skip, limit)
    /\ UNCHANGED <<ls_list, ls_prev, ls_args, ls_first, ls_n, lc_pc, lc_args,
                   counts_vars, runner_vars, proc_vars, index_vars>>

\* The caller goes on; the slice it passed is gone with the call.
ListsReturn ==
    /\ ls_pc = "returned"
    /\ ls_pc' = "idle"
    /\ ls_prev' = <<>>
    /\ ls_args' = <<>>
    /\ UNCHANGED <<ls_list, ls_first, ls_n, ls_skip, ls_limit, ls_result,
                   lc_pc, lc_args, counts_vars, runner_vars, proc_vars, index_vars>>

\* The reader goes on; what it read is gone with the call.
ListsReadReturn ==
    /\ ls_pc = "read"
    /\ ls_pc' = "idle"
    /\ ls_skip' = NoUsize
    /\ ls_limit' = NoUsize
    /\ ls_result' = NoRange
    /\ UNCHANGED <<ls_list, ls_prev, ls_args, ls_first, ls_n, lc_pc, lc_args,
                   counts_vars, runner_vars, proc_vars, index_vars>>

ListsNext ==
    \/ \E values \in ListArgs : ListsPut(values)
    \/ ListsReturn
    \/ \E skip, limit \in RangeArgs : ListsGetRange(skip, limit)
    \/ ListsReadReturn

\* Concurrent callers of put on one key.  A caller with an empty slice
\* returns at once; any other sends the script to the store.
ConcInit ==
    /\ ls_list = <<>>
    /\ ls_pc = "idle"
    /\ ls_prev = <<>>
    /\ ls_args = <<>>
    /\ ls_first = <<>>
    /\ ls_n = MaxPuts
    /\ ls_skip = NoUsize
    /\ ls_limit = NoUsize
    /\ ls_result = NoRange
    /\ lc_pc = [p \in Putters |-> "idle"]
    /\ lc_args = [p \in Putters |-> <<>>]

ConcPut(p, values) ==
    /\ lc_pc[p] = "idle"
    /\ lc_pc' = [lc_pc EXCEPT ![p] = IF values = <<>> THEN "done" ELSE "invoked"]
    /\ lc_args' = [lc_args EXCEPT ![p] = values]
    /\ UNCHANGED <<ls_list, ls_pc, ls_prev, ls_args, ls_first, ls_n,
                   ls_skip, ls_limit, ls_result,
                   counts_vars, runner_vars, proc_vars, index_vars>>

\* The store runs the script one value at a time, between other commands.
ConcScript_value_by_value(p) ==
    /\ lc_pc[p] = "invoked"
    /\ LET new == SelectSeq(lc_args[p], LAMBDA v : LuaNot(LPOS(ls_list, v)))
       IN  /\ ls_list' = IF new = <<>> THEN ls_list ELSE Append(ls_list, Head(new))
           /\ lc_pc' = [lc_pc EXCEPT ![p] = IF Len(FirstOccurrences(new)) <= 1
                                              THEN "done" ELSE "invoked"]
    /\ UNCHANGED <<lc_args, ls_pc, ls_prev, ls_args, ls_first, ls_n,
                   ls_skip, ls_limit, ls_result,
                   counts_vars, runner_vars, proc_vars, index_vars>>

\* The store runs the whole script of one caller: no other command of any
\* client runs between its first LPOS and its last RPUSH.
ConcScript(p) ==
    /\ lc_pc[p] = "invoked"
    /\ ls_list' = lists_put_script(ls_list, lc_args[p])
    /\ lc_pc' = [lc_pc EXCEPT ![p] = "done"]
    /\ UNCHANGED <<lc_args, ls_pc, ls_prev, ls_args, ls_first, ls_n,
                   ls_skip, ls_limit, ls_result,
                   counts_vars, runner_vars, proc_vars, index_vars>>

\* put returns to its caller, which may call again.
ConcReturn(p) ==
    /\ lc_pc[p] = "done"
    /\ lc_pc' = [lc_pc EXCEPT ![p] = "idle"]
    /\ lc_args' = [lc_args EXCEPT ![p] = <<>>]
    /\ UNCHANGED <<ls_list, ls_pc, ls_prev, ls_args, ls_first, ls_n,
                   ls_skip, ls_limit, ls_result,
                   counts_vars, runner_vars, proc_vars, index_vars>>

ConcNext ==
    \/ \E p \in Putters, values \in ConcArgs : ConcPut(p, values)
    \/ \E p \in Putters : ConcScript(p)
    \/ \E p \in Putters : ConcReturn(p)

\* ------------------------------------------------- the user search index
\* Strings are sequences of characters; each character stands for the first
\* byte of its UTF-8 encoding, by which the store orders members.
CharCode ==
    (":" :> 58) @@ ("B" :> 66) @@ ("O" :> 79) @@ ("[DELETED]" :> 91)
        @@ ("b" :> 98) @@ ("o" :> 111) @@ ("x" :> 120) @@ ("y" :> 121)
        @@ ("~" :> 126) @@ ("é" :> 195)

\* str::to_lowercase
to_lowercase(s) ==
    [i \in DOMAIN s |-> IF s[i] = "B" THEN "b" ELSE IF s[i] = "O" THEN "o" ELSE s[i]]

\* The name a deleted user's details carry: "[DELETED]", kept as one token
DeletedName == <<"[DELETED]">>

\* The user ids (all of one length, without ':')
UserIds == {<<"x">>, <<"y">>}

\* The names users give themselves
UserNames ==
    {<<"B", "o">>, <<"b", "O">>, <<"b">>, <<"o", "b">>, <<"b", "é">>, DeletedName}

\* The prefixes searched for
NamePrefixes ==
    {<<>>, <<"b">>, <<"B">>, <<"b", "o">>, <<"B", "O">>, <<"o">>}

\* UserDetails, as far as the search index reads them
UserDetails == [id : UserIds, name : UserNames]

\* The slices of details passed to put_to_index
DetailsLists == UNION {[1..n -> UserDetails] : n \in 0..MaxBatch}

\* One entry per user, as the callers build the slice
DistinctIds(l) == \A i, j \in DOMAIN l : l[i].id = l[j].id => i = j

\* Byte-wise order of two strings, as the store compares members
RECURSIVE LexLess(_, _)
LexLess(a, b) ==
    IF b = <<>> THEN FALSE
    ELSE IF a = <<>> THEN TRUE
    ELSE IF CharCode[Head(a)] < CharCode[Head(b)] THEN TRUE
    ELSE IF CharCode[Head(a)] > CharCode[Head(b)] THEN FALSE
    ELSE LexLess(Tail(a), Tail(b))

\* The members of a set in the store's order
RECURSIVE InLexOrder(_)
InLexOrder(set) ==
    IF set = {} THEN <<>>
    ELSE LET least == CHOOSE m \in set : \A o \in set \ {m} : LexLess(m, o)
         IN  <<least>> \o InLexOrder(set \ {least})

ends_with(s, suffix) ==
    /\ Len(suffix) <= Len(s)
    /\ SubSeq(s, Len(s) - Len(suffix) + 1, Len(s)) = suffix

starts_with(s, prefix) ==
    /\ Len(prefix) <= Len(s)
    /\ SubSeq(s, 1, Len(prefix)) = prefix

\* element.split(':').next_back(): what follows the last ':'
RECURSIVE split_next_back(_)
split_next_back(s) ==
    IF s = <<>> \/ s[Len(s)] = ":" THEN <<>>
    ELSE Append(split_next_back(SubSeq(s, 1, Len(s) - 1)), s[Len(s)])

\* format!("{username}:{user_id}")
NameMember(username, user_id) == username \o <<":">> \o user_id

\* ZRANGEBYLEX key [min (max: the members from min on and before max
ZRANGEBYLEX(set, min, max) ==
    InLexOrder({m \in set : ~LexLess(m, min) /\ LexLess(m, max)})

\* Option<Vec<String>> / Option<UserSearch>
NoUsers == [is_some |-> FALSE, value |-> <<>>]

SomeUsers(v) == [is_some |-> TRUE, value |-> v]

\* try_from_index_sorted_set_lex without skip and limit: None for no member
try_from_index_sorted_set_lex(set, min, max) ==
    LET elements == ZRANGEBYLEX(set, min, max)
    IN  IF elements = <<>> THEN NoUsers ELSE SomeUsers(elements)

get_from_index_name(name_index, name_prefix) ==
    LET lowered == to_lowercase(name_prefix)
        min == lowered
        max == lowered \o <<"~">>
    IN  try_from_index_sorted_set_lex(name_index, min, max)

get_by_name(name_index, name_prefix) ==
    LET elements == get_from_index_name(name_index, name_prefix)
    IN  IF elements.is_some
        THEN SomeUsers([i \in DOMAIN elements.value |->
                            split_next_back(elements.value[i])])
        ELSE NoUsers

\* find_entries_by_user_id: the members a full ZSCAN meets that end in ":id"
find_entries_by_user_id(name_index, user_id) ==
    {m \in name_index : ends_with(m, <<":">> \o user_id)}

\* delete_existing_records, as the pair of indexes it leaves
delete_existing_records(name_index, id_index, user_ids) ==
    IF user_ids = <<>> THEN [name |-> name_index, id |-> id_index]
    ELSE LET records_to_delete ==
                 UNION {find_entries_by_user_id(name_index, user_ids[i]) :
                            i \in DOMAIN user_ids}
         IN  [name |-> name_index \ records_to_delete,
              id |-> id_index \ {user_ids[i] : i \in DOMAIN user_ids}]

\* put_to_index that adds the new members without retiring the old ones
put_to_index_keeps_old(name_index, id_index, details_list) ==
    LET kept == SelectSeq(details_list, LAMBDA d : d.name # DeletedName)
    IN  [name |-> name_index
                    \cup {NameMember(to_lowercase(kept[i].name), kept[i].id) :
                              i \in DOMAIN kept},
         id |-> id_index \cup {kept[i].id : i \in DOMAIN kept}]

\* UserSearch::put_to_index, as the pair of indexes it leaves
put_to_index(name_index, id_index, details_list) ==
    LET cleared == delete_existing_records(name_index, id_index,
                       [i \in DOMAIN details_list |-> details_list[i].id])
        kept == SelectSeq(details_list, LAMBDA d : d.name # DeletedName)
        pairs == [i \in DOMAIN kept |->
                      NameMember(to_lowercase(kept[i].name), kept[i].id)]
        ids == [i \in DOMAIN kept |-> kept[i].id]
    IN  [name |-> cleared.name \cup {pairs[i] : i \in DOMAIN pairs},
         id |-> cleared.id \cup {ids[i] : i \in DOMAIN ids}]

\* delete_from_index that leaves the id index alone
delete_from_index_name_only(name_index, id_index, user_id) ==
    [name |-> delete_existing_records(name_index, id_index, <<user_id>>).name,
     id |-> id_index]

\* UserSearch::delete_from_index
delete_from_index(name_index, id_index, user_id) ==
    delete_existing_records(name_index, id_index, <<user_id>>)

\* What is known of a user: never indexed, indexed under a name by so many
\* calls, or deleted from the index
NeverIndexed == [state |-> "never", name |-> <<>>, puts |-> 0]

\* The tasks that call put_to_index concurrently
SearchTasks == {"t1", "t2"}

SearchQuiet ==
    /\ sx_name = {}
    /\ sx_id = {}
    /\ sx_hist = [u \in UserIds |-> NeverIndexed]
    /\ sx_pc = "idle"
    /\ sx_prefix = <<>>
    /\ sx_result = NoUsers
    /\ sc_pc = [t \in SearchTasks |-> "idle"]
    /\ sc_details = [t \in SearchTasks |-> <<>>]
    /\ sc_found = [t \in SearchTasks |-> {}]

SearchInit ==
    /\ sx_name = {}
    /\ sx_id = {}
    /\ sx_hist = [u \in UserIds |-> NeverIndexed]
    /\ sx_pc = "idle"
    /\ sx_prefix = <<>>
    /\ sx_result = NoUsers
    /\ sc_pc = [t \in SearchTasks |-> "idle"]
    /\ sc_details = [t \in SearchTasks |-> <<>>]
    /\ sc_found = [t \in SearchTasks |-> {}]

\* One call of put_to_index, up to its return
SearchPut(details_list) ==
    /\ sx_pc = "idle"
    /\ DistinctIds(details_list)
    /\ \A i \in DOMAIN details_list : sx_hist[details_list[i].id].puts < MaxRenames
    /\ LET left == put_to_index(sx_name, sx_id, details_list)
       IN  /\ sx_name' = left.name
           /\ sx_id' = left.id
    /\ sx_hist' = [u \in UserIds |->
                      IF \E i \in DOMAIN details_list : details_list[i].id = u
                      THEN LET i == CHOOSE i \in DOMAIN details_list :
                                       details_list[i].id = u
                           IN  [state |-> "named", name |-> details_list[i].name,
                                puts |-> sx_hist[u].puts + 1]
                      ELSE sx_hist[u]]
    /\ UNCHANGED <<sx_pc, sx_prefix, sx_result, sc_pc, sc_details, sc_found>>
    /\ UNCHANGED <<counts_vars, runner_vars, proc_vars, lists_vars,
                   rel_vars, zs_vars, tg_vars, late_vars>>

\* One call of delete_from_index, up to its return
SearchDelete(user_id) ==
    /\ sx_pc = "idle"
    /\ sx_hist[user_id].state # "deleted"
    /\ LET left == delete_from_index(sx_name, sx_id, user_id)
       IN  /\ sx_name' = left.name
           /\ sx_id' = left.id
    /\ sx_hist' = [sx_hist EXCEPT ![user_id].state = "deleted"]
    /\ UNCHANGED <<sx_pc, sx_prefix, sx_result, sc_pc, sc_details, sc_found>>
    /\ UNCHANGED <<counts_vars, runner_vars, proc_vars, lists_vars,
                   rel_vars, zs_vars, tg_vars, late_vars>>

\* One call of get_by_name, up to its return
SearchGetByName(name_prefix) ==
    /\ sx_pc = "idle"
    /\ sx_pc' = "read"
    /\ sx_prefix' = name_prefix
    /\ sx_result' = get_by_name(sx_name, name_prefix)
    /\ UNCHANGED <<sx_name, sx_id, sx_hist, sc_pc, sc_details, sc_found>>
    /\ UNCHANGED <<counts_vars, runner_vars, proc_vars, lists_vars,
                   rel_vars, zs_vars, tg_vars, late_vars>>

\* The caller goes on; what it read is gone with the call.
SearchReadReturn ==
    /\ sx_pc = "read"
    /\ sx_pc' = "idle"
    /\ sx_prefix' = <<>>
    /\ sx_result' = NoUsers
    /\ UNCHANGED <<sx_name, sx_id, sx_hist, sc_pc, sc_details, sc_found>>
    /\ UNCHANGED <<counts_vars, runner_vars, proc_vars, lists_vars,
                   rel_vars, zs_vars, tg_vars, late_vars>>

SearchNext ==
    \/ \E details_list \in DetailsLists : SearchPut(details_list)
    \/ \E user_id \in UserIds : SearchDelete(user_id)
    \/ \E name_prefix \in NamePrefixes : SearchGetByName(name_prefix)
    \/ SearchReadReturn

\* Concurrent calls of put_to_index, each for one user.  Every await of the
\* call is a step of its own: the scan, the two removals and the two
\* insertions are separate commands, between which the store serves the
\* commands of the other tasks.
ScInit ==
    /\ sx_name \in {{}} \cup {{NameMember(<<"o", "b">>, u)} : u \in UserIds}
    /\ sx_id = {split_next_back(m) : m \in sx_name}
    /\ sx_hist = [u \in UserIds |-> NeverIndexed]
    /\ sx_pc = "idle"
    /\ sx_prefix = <<>>
    /\ sx_result = NoUsers
    /\ sc_pc = [t \in SearchTasks |-> "idle"]
    /\ sc_details = [t \in SearchTasks |-> <<>>]
    /\ sc_found = [t \in SearchTasks |-> {}]

ScCall(t, details) ==
    /\ sc_pc[t] = "idle"
    /\ sc_details[t] = <<>>
    /\ details.name # DeletedName
    /\ sc_details' = [sc_details EXCEPT ![t] = <<details>>]
    /\ sc_pc' = [sc_pc EXCEPT ![t] = "scan"]
    /\ UNCHANGED <<sx_name, sx_id, sx_hist, sx_pc, sx_prefix, sx_result, sc_found>>
    /\ UNCHANGED <<counts_vars, runner_vars, proc_vars, lists_vars,
                   rel_vars, zs_vars, tg_vars, late_vars>>

\* find_entries_by_user_id
ScScan(t) ==
    /\ sc_pc[t] = "scan"
    /\ sc_found' = [sc_found EXCEPT
                       ![t] = find_entries_by_user_id(sx_name, sc_details[t][1].id)]
    /\ sc_pc' = [sc_pc EXCEPT ![t] = "remove_name"]
    /\ UNCHANGED <<sx_name, sx_id, sx_hist, sx_pc, sx_prefix, sx_result, sc_details>>
    /\ UNCHANGED <<counts_vars, runner_vars, proc_vars, lists_vars,
                   rel_vars, zs_vars, tg_vars, late_vars>>

\* remove_from_index_sorted_set(USER_NAME_KEY_PARTS, records_to_delete)
ScRemoveName(t) ==
    /\ sc_pc[t] = "remove_name"
    /\ sx_name' = sx_name \ sc_found[t]
    /\ sc_pc' = [sc_pc EXCEPT ![t] = "remove_id"]
    /\ UNCHANGED <<sx_id, sx_hist, sx_pc, sx_prefix, sx_result, sc_details, sc_found>>
    /\ UNCHANGED <<counts_vars, runner_vars, proc_vars, lists_vars,
                   rel_vars, zs_vars, tg_vars, late_vars>>

\* remove_from_index_sorted_set(USER_ID_KEY_PARTS, user_ids)
ScRemoveId(t) ==
    /\ sc_pc[t] = "remove_id"
    /\ sx_id' = sx_id \ {sc_details[t][1].id}
    /\ sc_pc' = [sc_pc EXCEPT ![t] = "put_name"]
    /\ sc_found' = [sc_found EXCEPT ![t] = {}]
    /\ UNCHANGED <<sx_name, sx_hist, sx_pc, sx_prefix, sx_result, sc_details>>
    /\ UNCHANGED <<counts_vars, runner_vars, proc_vars, lists_vars,
                   rel_vars, zs_vars, tg_vars, late_vars>>

\* put_index_sorted_set(USER_NAME_KEY_PARTS, pairs)
ScPutName(t) ==
    /\ sc_pc[t] = "put_name"
    /\ sx_name' = sx_name \cup {NameMember(to_lowercase(sc_details[t][1].name),
                                           sc_details[t][1].id)}
    /\ sc_pc' = [sc_pc EXCEPT ![t] = "put_id"]
    /\ UNCHANGED <<sx_id, sx_hist, sx_pc, sx_prefix, sx_result, sc_details, sc_found>>
    /\ UNCHANGED <<counts_vars, runner_vars, proc_vars, lists_vars,
                   rel_vars, zs_vars, tg_vars, late_vars>>

\* put_index_sorted_set(USER_ID_KEY_PARTS, ids) and the return
ScPutId(t) ==
    /\ sc_pc[t] = "put_id"
    /\ sx_id' = sx_id \cup {sc_details[t][1].id}
    /\ sc_pc' = [sc_pc EXCEPT ![t] = "idle"]
    /\ UNCHANGED <<sx_name, sx_hist, sx_pc, sx_prefix, sx_result, sc_details, sc_found>>
    /\ UNCHANGED <<counts_vars, runner_vars, proc_vars, lists_vars,
                   rel_vars, zs_vars, tg_vars, late_vars>>

ScNext ==
    \/ \E t \in SearchTasks, details \in UserDetails : ScCall(t, details)
    \/ \E t \in SearchTasks : ScScan(t)
    \/ \E t \in SearchTasks : ScRemoveName(t)
    \/ \E t \in SearchTasks : ScRemoveId(t)
    \/ \E t \in SearchTasks : ScPutName(t)
    \/ \E t \in SearchTasks : ScPutId(t)

\* -------------------------------------------------- the relationships
\* The users of the relationship index; "v" is the one who views
RelUsers == {"v", "a", "b"}

\* Option<&str>::None of viewer_id
NoViewer == "None"

\* The slices of user ids a caller can pass
RelUserIds == UNION {[1..n -> RelUsers] : n \in 0..MaxIds}

\* Option<Relationship>
NoRelationship ==
    [is_some |-> FALSE, following |-> FALSE, followed_by |-> FALSE, muted |-> FALSE]

SomeRelationship(following, followed_by, muted) ==
    [is_some |-> TRUE, following |-> following, followed_by |-> followed_by,
     muted |-> muted]

\* UserCounts::mget: for each id whether a counts record is stored
UserCounts_mget(counts, user_ids) == [i \in DOMAIN user_ids |-> user_ids[i] \in counts]

\* check_set_members_batch: one answer per check, in the order of the checks
check_set_members_batch(sets, checks) == [i \in DOMAIN checks |-> checks[i] \in sets]

\* vec![None; user_ids.len()]
AllNone(user_ids) == [i \in DOMAIN user_ids |-> NoRelationship]

\* get_by_ids that asks the store about every user of the slice, also those
\* without a counts record, and reads the answers by position among the
\* existing users
get_by_ids_checks_every_user(counts, followers, muted, user_ids, viewer_id) ==
    IF viewer_id = NoViewer THEN AllNone(user_ids)
    ELSE IF user_ids = <<>> THEN <<>>
    ELSE LET counts_list == UserCounts_mget(counts, user_ids)
             existing_users ==
                 SelectSeq([i \in DOMAIN user_ids |-> <<i, user_ids[i]>>],
                           LAMBDA e : counts_list[e[1]])
             follower_checks ==
                 [k \in 1..(2 * Len(user_ids)) |->
                     IF k % 2 = 1 THEN <<viewer_id, user_ids[(k + 1) \div 2]>>
                     ELSE <<user_ids[k \div 2], viewer_id>>]
             muted_checks == [i \in DOMAIN user_ids |-> <<viewer_id, user_ids[i]>>]
             follower_results == check_set_members_batch(followers, follower_checks)
             muted_results == check_set_members_batch(muted, muted_checks)
         IN  IF viewer_id \notin counts \/ existing_users = <<>>
             THEN AllNone(user_ids)
             ELSE [j \in DOMAIN user_ids |->
                     IF \E i \in DOMAIN existing_users : existing_users[i][1] = j
                     THEN LET i == CHOOSE i \in DOMAIN existing_users :
                                       existing_users[i][1] = j
                          IN  SomeRelationship(follower_results[2 * (i - 1) + 1],
                                               follower_results[2 * (i - 1) + 2],
                                               muted_results[i])
                     ELSE NoRelationship]

\* Relationship::get_by_ids.  Positions count from 1 here: the answers of
\* the i-th existing user are at 2(i-1)+1 and 2(i-1)+2, which the code, that
\* counts from 0, writes i*2 and i*2+1.
get_by_ids(counts, followers, muted, user_ids, viewer_id) ==
    IF viewer_id = NoViewer THEN AllNone(user_ids)
    ELSE IF user_ids = <<>> THEN <<>>
    ELSE LET counts_list == UserCounts_mget(counts, user_ids)
             viewer_exists == viewer_id \in counts
             existing_users ==
                 SelectSeq([i \in DOMAIN user_ids |-> <<i, user_ids[i]>>],
                           LAMBDA e : counts_list[e[1]])
             follower_checks ==
                 [k \in 1..(2 * Len(existing_users)) |->
                     IF k % 2 = 1 THEN <<viewer_id, existing_users[(k + 1) \div 2][2]>>
                     ELSE <<existing_users[k \div 2][2], viewer_id>>]
             muted_checks ==
                 [i \in DOMAIN existing_users |-> <<viewer_id, existing_users[i][2]>>]
             follower_results == check_set_members_batch(followers, follower_checks)
             muted_results == check_set_members_batch(muted, muted_checks)
         IN  IF ~viewer_exists THEN AllNone(user_ids)
             ELSE IF existing_users = <<>> THEN AllNone(user_ids)
             ELSE [j \in DOMAIN user_ids |->
                     IF \E i \in DOMAIN existing_users : existing_users[i][1] = j
                     THEN LET i == CHOOSE i \in DOMAIN existing_users :
                                       existing_users[i][1] = j
                          IN  SomeRelationship(follower_results[2 * (i - 1) + 1],
                                               follower_results[2 * (i - 1) + 2],
                                               muted_results[i])
                     ELSE NoRelationship]

\* UserFollows::check and Muted::check: check_set_member(&[key], member), as
\* Friends::check calls it on the Following sets
Set_check(sets, key, member) == <<key, member>> \in sets

\* Relationship::get_from_index: both counts records are looked up first;
\* following is Followers::check(user_id, viewer_id), followed_by is
\* Followers::check(viewer_id, user_id), muted is Muted::check(viewer_id, user_id)
get_from_index(counts, followers, muted, user_id, viewer_id) ==
    LET user_exist == user_id \in counts
        viewer_exist == viewer_id \in counts
    IN  IF ~user_exist \/ ~viewer_exist THEN NoRelationship
        ELSE LET following == Set_check(followers, user_id, viewer_id)
                 followed_by == Set_check(followers, viewer_id, user_id)
                 is_muted == Set_check(muted, viewer_id, user_id)
             IN  SomeRelationship(following, followed_by, is_muted)

\* Relationship::get_by_id
get_by_id(counts, followers, muted, user_id, viewer_id) ==
    IF viewer_id = NoViewer THEN NoRelationship
    ELSE get_from_index(counts, followers, muted, user_id, viewer_id)

RelQuiet ==
    /\ rl_counts = {}
    /\ rl_followers = {}
    /\ rl_muted = {}
    /\ rl_pc = "idle"
    /\ rl_user_ids = <<>>
    /\ rl_viewer = NoViewer
    /\ rl_result = <<>>

\* Any index: who has a counts record, who follows or is followed by the
\* viewer, whom the viewer has muted
RelInit ==
    /\ rl_counts \in SUBSET RelUsers
    /\ rl_followers \in SUBSET {<<"v", "a">>, <<"a", "v">>, <<"v", "b">>, <<"b", "v">>}
    /\ rl_muted \in SUBSET {<<"v", "a">>, <<"v", "b">>}
    /\ rl_pc = "idle"
    /\ rl_user_ids = <<>>
    /\ rl_viewer = NoViewer
    /\ rl_result = <<>>

\* One call of get_by_ids, up to its return
RelGetByIds(user_ids, viewer_id) ==
    /\ rl_pc = "idle"
    /\ rl_pc' = "read"
    /\ rl_user_ids' = user_ids
    /\ rl_viewer' = viewer_id
    /\ rl_result' = get_by_ids(rl_counts, rl_followers, rl_muted, user_ids, viewer_id)
    /\ UNCHANGED <<rl_counts, rl_followers, rl_muted>>
    /\ UNCHANGED <<counts_vars, runner_vars, proc_vars, lists_vars,
                   search_vars, zs_vars, tg_vars, late_vars>>

\* The caller goes on; what it read is gone with the call.
RelReturn ==
    /\ rl_pc \in {"read", "read_one"}
    /\ rl_pc' = "idle"
    /\ rl_user_ids' = <<>>
    /\ rl_viewer' = NoViewer
    /\ rl_result' = <<>>
    /\ UNCHANGED <<rl_counts, rl_followers, rl_muted>>
    /\ UNCHANGED <<counts_vars, runner_vars, proc_vars, lists_vars,
                   search_vars, zs_vars, tg_vars, late_vars>>

\* One call of get_by_id, up to its return
RelGetById(user_id, viewer_id) ==
    /\ rl_pc = "idle"
    /\ rl_pc' = "read_one"
    /\ rl_user_ids' = <<user_id>>
    /\ rl_viewer' = viewer_id
    /\ rl_result' = <<get_by_id(rl_counts, rl_followers, rl_muted, user_id, viewer_id)>>
    /\ UNCHANGED <<rl_counts, rl_followers, rl_muted>>
    /\ UNCHANGED <<counts_vars, runner_vars, proc_vars, lists_vars,
                   search_vars, zs_vars, tg_vars, late_vars>>

RelNext ==
    \/ \E user_ids \in RelUserIds, viewer_id \in {"v", NoViewer} :
           RelGetByIds(user_ids, viewer_id)
    \/ \E user_id \in RelUsers, viewer_id \in {"v", NoViewer} :
           RelGetById(user_id, viewer_id)
    \/ RelReturn

\* ------------------------------------------------ the batched sorted sets
ZsKeys == {"k1", "k2", "k3"}

\* What a key can hold: nothing (the key does not exist) or members with
\* their scores, no two alike
ZsSets ==
    {{}, {<<"m1", 1>>}, {<<"m1", 2>>, <<"m2", 3>>, <<"m3", 1>>}}

\* The slices of keys a caller can pass
ZsKeyLists == UNION {[1..n -> ZsKeys] : n \in 0..MaxKeys}

SortOrder == {"Ascending", "Descending"}

\* The members of a set from the lowest score to the highest
RECURSIVE ByScore(_)
ByScore(set) ==
    IF set = {} THEN <<>>
    ELSE LET lowest == CHOOSE e \in set : \A o \in set : e[2] <= o[2]
         IN  <<lowest>> \o ByScore(set \ {lowest})

Reverse(seq) == [i \in DOMAIN seq |-> seq[Len(seq) + 1 - i]]

\* ... LIMIT offset count: count elements from the offset on, all of them
\* for a negative count
LIMIT(seq, offset, count) ==
    IF offset < 0 \/ offset >= Len(seq) THEN <<>>
    ELSE SubSeq(seq, offset + 1,
                IF count < 0 THEN Len(seq) ELSE Min(Len(seq), offset + count))

\* ZRANGEBYSCORE key min max WITHSCORES LIMIT skip limit, and
\* ZREVRANGEBYSCORE key max min WITHSCORES LIMIT skip limit, over all scores
ZRANGEBYSCORE(set, skip, limit, sorting) ==
    LIMIT(IF sorting = "Ascending" THEN ByScore(set) ELSE Reverse(ByScore(set)),
          skip, limit)

\* redis::Value
ValueInt(n) == [kind |-> "int", int |-> n, items |-> <<>>]

ValueBulk(items) == [kind |-> "bulk", int |-> 0, items |-> items]

ValueNil == [kind |-> "nil", int |-> 0, items |-> <<>>]

\* The default limit of the batched read
DefaultLimit == 1000

\* The reply of the pipeline: for each key the answer of EXISTS followed by
\* the answer of the range command
pipe_query(store, keys, skip, limit, sorting) ==
    LET skip_ == as_isize(unwrap_or(skip, 0))
        limit_ == as_isize(unwrap_or(limit, DefaultLimit))
    IN  [k \in 1..(2 * Len(keys)) |->
            IF k % 2 = 1
            THEN ValueInt(IF store[keys[(k + 1) \div 2]] = {} THEN 0 ELSE 1)
            ELSE ValueBulk(ZRANGEBYSCORE(store[keys[k \div 2]], skip_, limit_, sorting))]

\* results_iter.next().unwrap_or(Value::Nil)
next_or_nil(results, pos) == IF pos \in DOMAIN results THEN results[pos] ELSE ValueNil

\* Option<Vec<(String, f64)>>
NoScores == [is_some |-> FALSE, value |-> <<>>]

SomeScores(v) == [is_some |-> TRUE, value |-> v]

\* Result<Vec<..>, DynError>
ZsErr == [ok |-> FALSE, value |-> <<>>]

ZsOk(v) == [ok |-> TRUE, value |-> v]

ZsPush(head, rest) == IF rest.ok THEN ZsOk(<<head>> \o rest.value) ELSE ZsErr

\* A loop that leaves the range of a missing key in the iterator
RECURSIVE collect_keeps_range_of_missing(_, _, _)
collect_keeps_range_of_missing(results, pos, remaining) ==
    IF remaining = 0 THEN ZsOk(<<>>)
    ELSE LET exists_value == next_or_nil(results, pos)
             range_value == next_or_nil(results, pos + 1)
         IN  IF exists_value.kind = "bulk" THEN ZsErr
             ELSE IF ~(exists_value.kind = "int" /\ exists_value.int # 0)
             THEN ZsPush(NoScores,
                         collect_keeps_range_of_missing(results, pos + 1, remaining - 1))
             ELSE IF range_value.kind # "bulk" THEN ZsErr
             ELSE ZsPush(SomeScores(range_value.items),
                         collect_keeps_range_of_missing(results, pos + 2, remaining - 1))

\* The loop over the keys that reads the reply two values at a time: the
\* existence flag, then the range, which is dropped when the key is missing
RECURSIVE collect(_, _, _)
collect(results, pos, remaining) ==
    IF remaining = 0 THEN ZsOk(<<>>)
    ELSE LET exists_value == next_or_nil(results, pos)
             range_value == next_or_nil(results, pos + 1)
         IN  IF exists_value.kind = "bulk" THEN ZsErr
             ELSE IF ~(exists_value.kind = "int" /\ exists_value.int # 0)
             THEN ZsPush(NoScores, collect(results, pos + 2, remaining - 1))
             ELSE IF range_value.kind # "bulk" THEN ZsErr
             ELSE ZsPush(SomeScores(range_value.items),
                         collect(results, pos + 2, remaining - 1))

\* TagUser::get_multiple_sorted_sets
get_multiple_sorted_sets(store, keys, skip, limit, sorting) ==
    IF keys = <<>> THEN ZsOk(<<>>)
    ELSE collect(pipe_query(store, keys, skip, limit, sorting), 1, Len(keys))

ZsQuiet ==
    /\ zs_store = <<>>
    /\ zs_pc = "idle"
    /\ zs_keys = <<>>
    /\ zs_skip = NoUsize
    /\ zs_limit = NoUsize
    /\ zs_sorting = "Descending"
    /\ zs_result = ZsOk(<<>>)

\* Any mix of existing and missing keys
ZsInit ==
    /\ zs_store \in [ZsKeys -> ZsSets]
    /\ zs_pc = "idle"
    /\ zs_keys = <<>>
    /\ zs_skip = NoUsize
    /\ zs_limit = NoUsize
    /\ zs_sorting = "Descending"
    /\ zs_result = ZsOk(<<>>)

\* One call of get_multiple_sorted_sets, up to its return
ZsGet(keys, skip, limit, sorting) ==
    /\ zs_pc = "idle"
    /\ zs_pc' = "read"
    /\ zs_keys' = keys
    /\ zs_skip' = skip
    /\ zs_limit' = limit
    /\ zs_sorting' = sorting
    /\ zs_result' = get_multiple_sorted_sets(zs_store, keys, skip, limit, sorting)
    /\ UNCHANGED zs_store
    /\ UNCHANGED <<counts_vars, runner_vars, proc_vars, lists_vars,
                   search_vars, rel_vars, tg_vars, late_vars>>

\* The caller goes on; what it read is gone with the call.
ZsReturn ==
    /\ zs_pc = "read"
    /\ zs_pc' = "idle"
    /\ zs_keys' = <<>>
    /\ zs_skip' = NoUsize
    /\ zs_limit' = NoUsize
    /\ zs_sorting' = "Descending"
    /\ zs_result' = ZsOk(<<>>)
    /\ UNCHANGED zs_store
    /\ UNCHANGED <<counts_vars, runner_vars, proc_vars, lists_vars,
                   search_vars, rel_vars, tg_vars, late_vars>>

ZsNext ==
    \/ \E keys \in ZsKeyLists, skip, limit \in RangeArgs, sorting \in SortOrder :
           ZsGet(keys, skip, limit, sorting)
    \/ ZsReturn

\* ------------------------------------------------------- the tag search
TgTaggers == {"tagger"}

\* What is tagged: two posts and a user
TgTagged == {"post1", "post2", "user"}

TgLabels == {"l1", "l2"}

\* A tag: who put it, on what, with which label
Tags == TgTaggers \X TgTagged \X TgLabels

\* The tags that carry a label
WithLabel(tags, label) == {t \in tags : t[3] = label}

\* Option<Vec<TagSearch>>
NoLabels == [is_some |-> FALSE, value |-> <<>>]

SomeLabels(v) == [is_some |-> TRUE, value |-> v]

\* The handler of a tag put event: the tag exists from now on and its label
\* is in the search index
tag_put(live, search, tag) ==
    [live |-> live \cup {tag}, search |-> search \cup {tag[3]}]

\* A handler of the delete event that takes the label out of the search
\* index with every tag deleted
tag_del_drops_label(live, search, tag) ==
    [live |-> live \ {tag}, search |-> search \ {tag[3]}]

\* The handler of a tag delete event: the tag is gone, and its label leaves
\* the search index when no other tag carries it
tag_del(live, search, tag) ==
    LET remaining == WithLabel(live \ {tag}, tag[3])
    IN  [live |-> live \ {tag},
         search |-> IF remaining = {} THEN search \ {tag[3]} ELSE search]

\* TagSearch::get_by_label for a whole label
get_by_label(search, label) ==
    IF label \in search THEN SomeLabels(<<label>>) ELSE NoLabels

TgQuiet ==
    /\ tg_live = {}
    /\ tg_search = {}
    /\ tg_pc = "idle"
    /\ tg_label = ""
    /\ tg_result = NoLabels
    /\ tg_last = <<"none">>

TgInit ==
    /\ tg_live = {}
    /\ tg_search = {}
    /\ tg_pc = "idle"
    /\ tg_label = ""
    /\ tg_result = NoLabels
    /\ tg_last = <<"none">>

\* test.put(&keypair, &tag_path, tag): the event is handled before put returns
TagPut(tag) ==
    /\ tg_pc = "idle"
    /\ LET left == tag_put(tg_live, tg_search, tag)
       IN  /\ tg_live' = left.live
           /\ tg_search' = left.search
    /\ tg_last' = <<"put", tag>>
    /\ UNCHANGED <<tg_pc, tg_label, tg_result>>
    /\ UNCHANGED <<counts_vars, runner_vars, proc_vars, lists_vars,
                   search_vars, rel_vars, zs_vars, late_vars>>

\* test.del(&keypair, &tag_path) of a tag that exists
TagDel(tag) ==
    /\ tg_pc = "idle"
    /\ tag \in tg_live
    /\ LET left == tag_del(tg_live, tg_search, tag)
       IN  /\ tg_live' = left.live
           /\ tg_search' = left.search
    /\ tg_last' = <<"del", tag>>
    /\ UNCHANGED <<tg_pc, tg_label, tg_result>>
    /\ UNCHANGED <<counts_vars, runner_vars, proc_vars, lists_vars,
                   search_vars, rel_vars, zs_vars, late_vars>>

\* One call of TagSearch::get_by_label, up to its return
TagSearchGet(label) ==
    /\ tg_pc = "idle"
    /\ tg_pc' = "read"
    /\ tg_label' = label
    /\ tg_result' = get_by_label(tg_search, label)
    /\ UNCHANGED <<tg_live, tg_search, tg_last>>
    /\ UNCHANGED <<counts_vars, runner_vars, proc_vars, lists_vars,
                   search_vars, rel_vars, zs_vars, late_vars>>

\* The caller goes on; what it read is gone with the call.
TagSearchReturn ==
    /\ tg_pc = "read"
    /\ tg_pc' = "idle"
    /\ tg_label' = ""
    /\ tg_result' = NoLabels
    /\ UNCHANGED <<tg_live, tg_search, tg_last>>
    /\ UNCHANGED <<counts_vars, runner_vars, proc_vars, lists_vars,
                   search_vars, rel_vars, zs_vars, late_vars>>

TgNext ==
    \/ \E tag \in Tags : TagPut(tag)
    \/ \E tag \in Tags : TagDel(tag)
    \/ \E label \in TgLabels : TagSearchGet(label)
    \/ TagSearchReturn

\* ------------------------------------------------- the tags of the users
TuUsers == {"u1", "u2"}

\* The slices of user ids a caller can pass
TuUserIds == UNION {[1..n -> TuUsers] : n \in 0..MaxTagUsers}

\* TagDetails
TagDetails(label, taggers, taggers_count, relationship) ==
    [label |-> label, taggers |-> taggers, taggers_count |-> taggers_count,
     relationship |-> relationship]

\* What the index can hold for a user: its sorted set of labels with their
\* scores and the set of taggers of each label.  Kinds: no key at all; one
\* label; two labels; a label whose score fell below 1 behind a live one; only
\* a label below 1; a label of score 2 whose set of taggers is gone.
TuKinds == {"none", "one", "two", "faded", "only_faded", "lost_set"}

TuSortedOf(kind) ==
    CASE kind = "none" -> {}
      [] kind = "one" -> {<<"x", 1>>}
      [] kind = "two" -> {<<"x", 2>>, <<"y", 1>>}
      [] kind = "faded" -> {<<"x", 1>>, <<"y", 0>>}
      [] kind = "only_faded" -> {<<"y", 0>>}
      [] kind = "lost_set" -> {<<"x", 2>>, <<"y", 1>>}

TuLabels == {"x", "y"}

\* The taggers are named after the user and the label they tagged
TuTaggersOf(kind, u, label) ==
    CASE kind \in {"none", "only_faded"} -> {}
      [] kind \in {"one", "faded"} -> IF label = "x" THEN {u \o "x1"} ELSE {}
      [] kind = "two" -> IF label = "x" THEN {u \o "x1", u \o "x2"} ELSE {"v"}
      [] kind = "lost_set" -> IF label = "x" THEN {} ELSE {u \o "y1"}

\* Option<Vec<TagDetails>>
NoTags == [is_some |-> FALSE, value |-> <<>>]

SomeTags(v) == [is_some |-> TRUE, value |-> v]

\* What the graph can hold for a user: no such user, a user without tags, a
\* user with two tags
TuGraphOf(u) ==
    {NoTags, SomeTags(<<>>),
     SomeTags(<<TagDetails("y", {u \o "g1", u \o "g2"}, 2, FALSE),
                TagDetails("z", {u \o "g3"}, 1, FALSE)>>)}

\* The defaults of limit_tags and limit_taggers
DefaultLimitTags == 5

\* Option<(Vec<String>, usize, bool)>
NoTaggers == [is_some |-> FALSE, taggers |-> {}, taggers_count |-> 0, relationship |-> FALSE]

SomeTaggers(taggers, taggers_count, relationship) ==
    [is_some |-> TRUE, taggers |-> taggers, taggers_count |-> taggers_count,
     relationship |-> relationship]

\* create_sorted_set_key_parts: the key of the sorted set of a user
create_sorted_set_key_parts(user_id, is_cache) == <<is_cache, user_id>>

\* create_label_index: the key of the set of taggers of a label of a user
create_label_index(user_id, label, is_cache) == <<is_cache, user_id, label>>

\* try_from_multiple_sets: one entry per key, in the order of the keys; None
\* for a key without members, otherwise the members, their number and
\* whether the viewer is one of them
try_from_multiple_sets(sets, keys, viewer_id) ==
    [i \in DOMAIN keys |->
        IF sets[keys[i]] = {} THEN NoTaggers
        ELSE SomeTaggers(sets[keys[i]], Cardinality(sets[keys[i]]),
                         viewer_id \in sets[keys[i]])]

\* TagDetails::from_index: the labels of the range are paired by position
\* with the entries of the slice; pairs without taggers are dropped
RECURSIVE from_index(_, _)
from_index(tag_scores, taggers_slice) ==
    IF tag_scores = <<>> \/ taggers_slice = <<>> THEN <<>>
    ELSE LET label == Head(tag_scores)[1]
             t == Head(taggers_slice)
             rest == from_index(Tail(tag_scores), Tail(taggers_slice))
         IN  IF t.is_some
             THEN <<TagDetails(label, t.taggers, t.taggers_count, t.relationship)>> \o rest
             ELSE rest

\* Result<Vec<Option<Vec<TagDetails>>>, DynError>; a slice out of range is a
\* panic
TuErr == [ok |-> FALSE, value |-> <<>>]

TuOk(v) == [ok |-> TRUE, value |-> v]

TuPush(head, rest) == IF rest.ok THEN TuOk(<<head>> \o rest.value) ELSE TuErr

\* lines 134-152: the keys of the labels of score 1 or more, user by user
tag_keys_of(user_id, tag_scores, is_cache) ==
    IF ~tag_scores.is_some THEN <<>>
    ELSE LET kept == SelectSeq(tag_scores.value, LAMBDA e : e[2] >= 1)
         IN  [k \in DOMAIN kept |-> create_label_index(user_id, kept[k][1], is_cache)]

RECURSIVE Flatten(_)
Flatten(seqs) == IF seqs = <<>> THEN <<>> ELSE Head(seqs) \o Flatten(Tail(seqs))

\* A loop that reads every user's slice from the start of the taggers list
RECURSIVE assemble_offset_not_advanced(_, _, _, _, _)
assemble_offset_not_advanced(tag_scores_list, tag_keys_per_user, taggers_list, i, tagger_index) ==
    IF i > Len(tag_scores_list) THEN TuOk(<<>>)
    ELSE LET tag_scores == tag_scores_list[i]
             tag_keys_len == Len(tag_keys_per_user[i])
         IN  IF ~tag_scores.is_some
             THEN TuPush(NoTags, assemble_offset_not_advanced(tag_scores_list,
                            tag_keys_per_user, taggers_list, i + 1, tagger_index))
             ELSE IF tag_keys_len = 0
             THEN TuPush(SomeTags(<<>>), assemble_offset_not_advanced(tag_scores_list,
                            tag_keys_per_user, taggers_list, i + 1, tagger_index))
             ELSE IF tagger_index + tag_keys_len > Len(taggers_list) THEN TuErr
             ELSE LET taggers_slice ==
                          SubSeq(taggers_list, tagger_index + 1,
                                 tagger_index + tag_keys_len)
                  IN  TuPush(SomeTags(from_index(tag_scores.value, taggers_slice)),
                             assemble_offset_not_advanced(tag_scores_list,
                                 tag_keys_per_user, taggers_list, i + 1, tagger_index))

\* lines 166-184: the loop that cuts the taggers list into one slice per
\* user, tagger_index being the number of entries already given out
RECURSIVE assemble(_, _, _, _, _)
assemble(tag_scores_list, tag_keys_per_user, taggers_list, i, tagger_index) ==
    IF i > Len(tag_scores_list) THEN TuOk(<<>>)
    ELSE LET tag_scores == tag_scores_list[i]
             tag_keys_len == Len(tag_keys_per_user[i])
         IN  IF ~tag_scores.is_some
             THEN TuPush(NoTags, assemble(tag_scores_list, tag_keys_per_user,
                                          taggers_list, i + 1, tagger_index))
             ELSE IF tag_keys_len = 0
             THEN TuPush(SomeTags(<<>>), assemble(tag_scores_list, tag_keys_per_user,
                                                  taggers_list, i + 1, tagger_index))
             ELSE IF tagger_index + tag_keys_len > Len(taggers_list) THEN TuErr
             ELSE LET taggers_slice ==
                          SubSeq(taggers_list, tagger_index + 1,
                                 tagger_index + tag_keys_len)
                  IN  TuPush(SomeTags(from_index(tag_scores.value, taggers_slice)),
                             assemble(tag_scores_list, tag_keys_per_user, taggers_list,
                                      i + 1, tagger_index + tag_keys_len))

\* TagUser::get_from_index_multiple (extra_param is None for the tags of a
\* user unless the cache of a viewer is read; limit_taggers is above the size
\* of every set of the model)
get_from_index_multiple(sorted, sets, user_ids, skip_tags, limit_tags, viewer_id, is_cache) ==
    LET skip_ == unwrap_or(skip_tags, 0)
        limit_ == unwrap_or(limit_tags, DefaultLimitTags)
        sorted_keys ==
            [i \in DOMAIN user_ids |-> create_sorted_set_key_parts(user_ids[i], is_cache)]
        scores == get_multiple_sorted_sets(sorted, sorted_keys, skip_, limit_,
                                           "Descending")
    IN  IF ~scores.ok THEN TuErr
        ELSE LET tag_scores_list == scores.value
                 tag_keys_per_user ==
                     [i \in DOMAIN tag_scores_list |->
                         tag_keys_of(user_ids[i], tag_scores_list[i], is_cache)]
                 total_tag_keys == Flatten(tag_keys_per_user)
                 taggers_list ==
                     IF total_tag_keys = <<>> THEN <<>>
                     ELSE try_from_multiple_sets(sets, total_tag_keys, viewer_id)
             IN  assemble(tag_scores_list, tag_keys_per_user, taggers_list, 1, 0)

\* TagCollection::get_from_graph: the tags of the user, None for no user
get_from_graph(graph, user_id) == graph[user_id]

\* ZADD of one member: its score is set, whatever it was
ZADD(set, member, score) == {e \in set : e[1] # member} \cup {<<member, score>>}

\* TagCollection::put_to_index: nothing for no tags; otherwise every label is
\* put in the sorted set of the user with its number of taggers as score and
\* its taggers are added to the set of the label
RECURSIVE tags_put_to_index(_, _, _, _, _)
tags_put_to_index(sorted, sets, user_id, tags, is_cache) ==
    IF tags = <<>> THEN [sorted |-> sorted, sets |-> sets]
    ELSE LET t == Head(tags)
             skey == create_sorted_set_key_parts(user_id, is_cache)
             lkey == create_label_index(user_id, t.label, is_cache)
         IN  tags_put_to_index(
                 [sorted EXCEPT ![skey] = ZADD(@, t.label, t.taggers_count)],
                 [sets EXCEPT ![lkey] = @ \cup t.taggers],
                 user_id, Tail(tags), is_cache)

\* matches!(depth, Some(1..=3)); 0 stands for no depth
NoDepth == 0

use_cache_of(viewer_id, depth) == viewer_id # NoViewer /\ depth \in 1..3

\* A fallback that returns what the graph holds without writing it back
RECURSIVE fill_missing_no_write_back(_, _, _, _, _, _, _, _)
fill_missing_no_write_back(sorted, sets, graph, user_ids, tag_details, missing_ids, is_cache, queried) ==
    IF missing_ids = <<>>
    THEN [ok |-> TRUE, value |-> tag_details, sorted |-> sorted, sets |-> sets,
          queried |-> queried]
    ELSE LET index == Head(missing_ids)
             user_id == user_ids[index]
             graph_tags == get_from_graph(graph, user_id)
         IN  fill_missing_no_write_back(sorted, sets, graph, user_ids,
                 IF graph_tags.is_some
                 THEN [tag_details EXCEPT ![index] = graph_tags] ELSE tag_details,
                 Tail(missing_ids), is_cache, Append(queried, user_id))

\* lines 76-89: every user the index did not answer for is asked of the
\* graph; tags that come back are put to the index and take the user's place
RECURSIVE fill_missing(_, _, _, _, _, _, _, _)
fill_missing(sorted, sets, graph, user_ids, tag_details, missing_ids, is_cache, queried) ==
    IF missing_ids = <<>>
    THEN [ok |-> TRUE, value |-> tag_details, sorted |-> sorted, sets |-> sets,
          queried |-> queried]
    ELSE LET index == Head(missing_ids)
             user_id == user_ids[index]
             graph_tags == get_from_graph(graph, user_id)
             put == IF graph_tags.is_some
                    THEN tags_put_to_index(sorted, sets, user_id, graph_tags.value,
                                           is_cache)
                    ELSE [sorted |-> sorted, sets |-> sets]
         IN  fill_missing(put.sorted, put.sets, graph, user_ids,
                 IF graph_tags.is_some
                 THEN [tag_details EXCEPT ![index] = graph_tags] ELSE tag_details,
                 Tail(missing_ids), is_cache, Append(queried, user_id))

\* TagUser::get_by_ids: the result, the index as the call leaves it and the
\* users it asked the graph about
tags_get_by_ids(sorted, sets, graph, user_ids, skip_tags, limit_tags, viewer_id, depth) ==
    IF user_ids = <<>>
    THEN [ok |-> TRUE, value |-> <<>>, sorted |-> sorted, sets |-> sets,
          queried |-> <<>>]
    ELSE LET use_cache == use_cache_of(viewer_id, depth)
             found == get_from_index_multiple(sorted, sets, user_ids, skip_tags,
                                              limit_tags, viewer_id, use_cache)
         IN  IF ~found.ok
             THEN [ok |-> FALSE, value |-> <<>>, sorted |-> sorted, sets |-> sets,
                   queried |-> <<>>]
             ELSE LET tag_details == found.value
                      all == [i \in DOMAIN tag_details |-> i]
                      missing_ids == SelectSeq(all, LAMBDA i : ~tag_details[i].is_some)
                  IN  fill_missing(sorted, sets, graph, user_ids, tag_details,
                                   missing_ids, use_cache, <<>>)

TuSortedKeys == BOOLEAN \X TuUsers

TuSetKeys == BOOLEAN \X TuUsers \X (TuLabels \cup {"z"})

NoTuArgs ==
    [user_ids |-> <<>>, skip_tags |-> NoUsize, limit_tags |-> NoUsize,
     viewer_id |-> NoViewer, depth |-> NoDepth]

NoTuResult == [ok |-> TRUE, value |-> <<>>]

TuQuiet ==
    /\ tu_sorted = <<>>
    /\ tu_sets = <<>>
    /\ tu_graph = <<>>
    /\ tu_pc = "idle"
    /\ tu_args = NoTuArgs
    /\ tu_result = NoTuResult
    /\ tu_queried = <<>>

\* Any index of the users' tags with the viewer's cache still cold, and any
\* graph
TuInit ==
    /\ \E kind \in [TuUsers -> TuKinds] :
          /\ tu_sorted = [k \in TuSortedKeys |->
                            IF k[1] THEN {} ELSE TuSortedOf(kind[k[2]])]
          /\ tu_sets = [k \in TuSetKeys |->
                            IF k[1] \/ k[3] = "z" THEN {}
                            ELSE TuTaggersOf(kind[k[2]], k[2], k[3])]
    /\ tu_graph \in [TuUsers -> UNION {TuGraphOf(u) : u \in TuUsers}]
    /\ \A u \in TuUsers : tu_graph[u] \in TuGraphOf(u)
    /\ tu_pc = "idle"
    /\ tu_args = NoTuArgs
    /\ tu_result = NoTuResult
    /\ tu_queried = <<>>

\* One call of get_by_ids, up to its return
TuGetByIds(user_ids, skip_tags, limit_tags, viewer_id, depth) ==
    /\ tu_pc = "idle"
    /\ tu_pc' = "read"
    /\ tu_args' = [user_ids |-> user_ids, skip_tags |-> skip_tags,
                   limit_tags |-> limit_tags, viewer_id |-> viewer_id,
                   depth |-> depth]
    /\ LET r == tags_get_by_ids(tu_sorted, tu_sets, tu_graph, user_ids, skip_tags,
                                limit_tags, viewer_id, depth)
       IN  /\ tu_result' = [ok |-> r.ok, value |-> r.value]
           /\ tu_sorted' = r.sorted
           /\ tu_sets' = r.sets
           /\ tu_queried' = r.queried
    /\ UNCHANGED <<tu_graph, fp_vars>>
    /\ UNCHANGED <<counts_vars, runner_vars, proc_vars, lists_vars,
                   search_vars, rel_vars, zs_vars, tg_vars>>

\* The caller goes on; what it read is gone with the call.
TuReturn ==
    /\ tu_pc = "read"
    /\ tu_pc' = "idle"
    /\ tu_args' = NoTuArgs
    /\ tu_result' = NoTuResult
    /\ tu_queried' = <<>>
    /\ UNCHANGED <<tu_sorted, tu_sets, tu_graph, fp_vars>>
    /\ UNCHANGED <<counts_vars, runner_vars, proc_vars, lists_vars,
                   search_vars, rel_vars, zs_vars, tg_vars>>

\* The pages asked for: all the labels, those after the first, the first
TuPages == {<<NoUsize, NoUsize>>, <<1, NoUsize>>, <<NoUsize, 1>>}

\* The calls made: with or without the viewer, whose cache is used at a
\* depth of 1 to 3
TuNext ==
    \/ \E user_ids \in TuUserIds, page \in TuPages,
          call \in {<<NoViewer, NoDepth>>, <<"v", 1>>, <<"v", NoDepth>>} :
           TuGetByIds(user_ids, page[1], page[2], call[1], call[2])
    \/ TuReturn

\* ------------------------------------------- the processors of the factory
FpQuiet ==
    /\ fp_pc = "done"
    /\ fp_list = <<>>
    /\ fp_idx = 1
    /\ fp_log = <<>>

\* Homeserver::get_all_from_graph: the ids of all the homeservers of the
\* graph, the default one among them, each once
get_all_from_graph == UNION {Orderings(S) : S \in SUBSET AllHs}

FpEntry(hs_id, what) == [hs_id |-> hs_id, what |-> what]

FpInit ==
    /\ fp_pc = "start"
    /\ fp_list \in get_all_from_graph
    /\ fp_idx = 1
    /\ fp_log = <<>>

\* run_processors: Homeserver::get_all_from_graph().await.expect(..): the
\* list is there, or the call panics
FpStart ==
    /\ fp_pc = "start"
    /\ \E ok \in BOOLEAN :
          fp_pc' = IF ~ok THEN "panicked"
                   ELSE IF fp_list = <<>> THEN "done" ELSE "build"
    /\ UNCHANGED <<fp_list, fp_idx, fp_log, tu_vars>>
    /\ UNCHANGED <<counts_vars, runner_vars, proc_vars, lists_vars,
                   search_vars, rel_vars, zs_vars, tg_vars>>

\* A build whose failure is passed over, the loop going on to the next id.
FpBuild_failure_skipped ==
    /\ fp_pc = "build"
    /\ \E ok \in BOOLEAN :
          IF ok
          THEN /\ fp_log' = Append(fp_log, FpEntry(fp_list[fp_idx], "built"))
               /\ fp_pc' = "run"
               /\ UNCHANGED fp_idx
          ELSE /\ fp_log' = Append(fp_log, FpEntry(fp_list[fp_idx], "build_failed"))
               /\ fp_idx' = fp_idx + 1
               /\ fp_pc' = IF fp_idx + 1 > Len(fp_list) THEN "done" ELSE "build"
    /\ UNCHANGED <<fp_list, tu_vars>>
    /\ UNCHANGED <<counts_vars, runner_vars, proc_vars, lists_vars,
                   search_vars, rel_vars, zs_vars, tg_vars>>

\* run_processors: self.build(&hs_id).await.unwrap(): the processor is
\* built, or the call panics
FpBuild ==
    /\ fp_pc = "build"
    /\ \E ok \in BOOLEAN :
          IF ok
          THEN /\ fp_log' = Append(fp_log, FpEntry(fp_list[fp_idx], "built"))
               /\ fp_pc' = "run"
          ELSE /\ fp_log' = Append(fp_log, FpEntry(fp_list[fp_idx], "build_failed"))
               /\ fp_pc' = "panicked"
    /\ UNCHANGED <<fp_list, fp_idx, tu_vars>>
    /\ UNCHANGED <<counts_vars, runner_vars, proc_vars, lists_vars,
                   search_vars, rel_vars, zs_vars, tg_vars>>

\* run_processors: e_processor.run().await.unwrap(): the run returns Ok and
\* the loop goes on (Ok(()) after the last id), or the call panics
FpRun ==
    /\ fp_pc = "run"
    /\ \E ok \in BOOLEAN :
          IF ok
          THEN /\ fp_log' = Append(fp_log, FpEntry(fp_list[fp_idx], "ran"))
               /\ fp_idx' = fp_idx + 1
               /\ fp_pc' = IF fp_idx + 1 > Len(fp_list) THEN "done" ELSE "build"
          ELSE /\ fp_log' = Append(fp_log, FpEntry(fp_list[fp_idx], "run_failed"))
               /\ fp_pc' = "panicked"
               /\ UNCHANGED fp_idx
    /\ UNCHANGED <<fp_list, tu_vars>>
    /\ UNCHANGED <<counts_vars, runner_vars, proc_vars, lists_vars,
                   search_vars, rel_vars, zs_vars, tg_vars>>

FpNext ==
    \/ FpStart
    \/ FpBuild
    \/ FpRun

LateQuiet == TuQuiet /\ FpQuiet

IndexQuiet == SearchQuiet /\ RelQuiet /\ ZsQuiet /\ TgQuiet /\ LateQuiet

\* -------------------------------------------------------- specifications
InitCounts == CountsInit /\ RunnerQuiet /\ ProcQuiet /\ ListsQuiet /\ IndexQuiet

SpecCounts == InitCounts /\ [][CountsNext]_vars

InitRunner == RunnerInit /\ CountsQuiet /\ ProcQuiet /\ ListsQuiet /\ IndexQuiet

SpecRunner == InitRunner /\ [][RunnerNext]_vars

\* run_default and run_all as two concurrent tasks of which only run_default
\* is sure to take its steps: its processor finishes, while run_all may stay
\* for ever in the run of a pool member.
SpecRunnerFair ==
    /\ InitRunner
    /\ [][RunnerNext]_vars
    /\ WF_vars(RunDefaultStart)
    /\ WF_vars(RunDefaultBuild)
    /\ WF_vars(RunDefaultRun)

InitProcessor == ProcInit /\ CountsQuiet /\ RunnerQuiet /\ ListsQuiet /\ IndexQuiet

InitLists == ListsInit /\ CountsQuiet /\ RunnerQuiet /\ ProcQuiet /\ IndexQuiet

SpecLists == InitLists /\ [][ListsNext]_vars

InitConc == ConcInit /\ CountsQuiet /\ RunnerQuiet /\ ProcQuiet /\ IndexQuiet

SpecConc == InitConc /\ [][ConcNext]_vars

InitSearch ==
    SearchInit /\ CountsQuiet /\ RunnerQuiet /\ ProcQuiet /\ ListsQuiet
        /\ RelQuiet /\ ZsQuiet /\ TgQuiet /\ LateQuiet

SpecSearch == InitSearch /\ [][SearchNext]_vars

InitSearchConc ==
    ScInit /\ CountsQuiet /\ RunnerQuiet /\ ProcQuiet /\ ListsQuiet
        /\ RelQuiet /\ ZsQuiet /\ TgQuiet /\ LateQuiet

SpecSearchConc == InitSearchConc /\ [][ScNext]_vars

InitRel ==
    RelInit /\ CountsQuiet /\ RunnerQuiet /\ ProcQuiet /\ ListsQuiet
        /\ SearchQuiet /\ ZsQuiet /\ TgQuiet /\ LateQuiet

SpecRel == InitRel /\ [][RelNext]_vars

InitZs ==
    ZsInit /\ CountsQuiet /\ RunnerQuiet /\ ProcQuiet /\ ListsQuiet
        /\ SearchQuiet /\ RelQuiet /\ TgQuiet /\ LateQuiet

SpecZs == InitZs /\ [][ZsNext]_vars

InitTg ==
    TgInit /\ CountsQuiet /\ RunnerQuiet /\ ProcQuiet /\ ListsQuiet
        /\ SearchQuiet /\ RelQuiet /\ ZsQuiet /\ LateQuiet

SpecTg == InitTg /\ [][TgNext]_vars

SpecProcessor == InitProcessor /\ [][ProcNext]_vars

InitTu ==
    TuInit /\ FpQuiet /\ CountsQuiet /\ RunnerQuiet /\ ProcQuiet /\ ListsQuiet
        /\ SearchQuiet /\ RelQuiet /\ ZsQuiet /\ TgQuiet

SpecTu == InitTu /\ [][TuNext]_vars

InitFp ==
    FpInit /\ TuQuiet /\ CountsQuiet /\ RunnerQuiet /\ ProcQuiet /\ ListsQuiet
        /\ SearchQuiet /\ RelQuiet /\ ZsQuiet /\ TgQuiet

SpecFp == InitFp /\ [][FpNext]_vars

\* ------------------------------------------------- claims on the counts
NxAllReturned == \A c \in 1..nx_k : nx_pc[c] = "returned"

NxFreshDefaultRace ==
    /\ counts_initial = NoRecord
    /\ NxAllReturned
    /\ \A c \in 1..nx_k : nx_arg[c] = DefaultCounts

\* C1: k concurrent put_to_index_nx calls with the default record for an
\* entity without a record: in every interleaving exactly one call returns
\* true, the other k-1 return false, and the stored record is the default.
C1_ExactlyOneCreates ==
    NxFreshDefaultRace =>
        /\ Cardinality({c \in 1..nx_k : nx_ret[c]}) = 1
        /\ Cardinality({c \in 1..nx_k : ~nx_ret[c]}) = nx_k - 1
        /\ counts_index = DefaultCounts

C1_Witness == NxFreshDefaultRace /\ nx_k = MaxCallers

\* C2: when a record already exists, put_to_index_nx returns false and
\* leaves every field of the stored record as it was, whatever the record
\* holds and whatever value the caller passed.
C2_ExistingUntouched ==
    [][\A c \in Callers :
          (nx_pc[c] = "called" /\ nx_pc'[c] = "returned" /\ counts_index # NoRecord)
              => (counts_index' = counts_index /\ nx_ret'[c] = FALSE)]_vars

C2_Witness ==
    \E c \in 1..nx_k :
        /\ nx_pc[c] = "returned"
        /\ counts_initial \in CountsRecords
        /\ counts_initial # DefaultCounts
        /\ nx_arg[c] # counts_initial
        /\ counts_index = counts_initial


\* ------------------------------------------------- claims on the runner
HsIds(stats) == [i \in DOMAIN stats |-> stats[i].hs_id]

\* What the runner records for a homeserver that behaved as outcome says
StatusOfOutcome(outcome) ==
    CASE outcome = "Ok" -> "Ok"
      [] outcome = "Internal" -> "Error"
      [] outcome = "Panicked" -> "Panic"
      [] outcome = "TimedOut" -> "Timeout"
      [] outcome = "BuildErr" -> "FailedToBuild"

\* C3: with m homeservers other than the default D in priority order and
\* limit N, pre_run_all returns exactly min(N, m) ids, they are the first
\* min(N, m) of the priority order in the same order, and D is not among them.
C3_PreRunAllPrefix ==
    ra_pc \notin {"start", "failed"} =>
        /\ Len(ra_list) = Min(hs_limit, Len(hs_priority))
        /\ \A i \in DOMAIN ra_list : ra_list[i] = hs_priority[i]
        /\ DefaultHs \notin Range(ra_list)

C3_Witness ==
    /\ ra_pc = "check"
    /\ Len(hs_priority) = MaxPool
    /\ hs_limit = 2
    /\ hs_priority[1] = "hs3"
    /\ ra_list = <<"hs3", hs_priority[2]>>

\* C4: when run_all completes without a shutdown request, the statistics
\* hold exactly one entry per member of the pool, the five counts sum to the
\* pool size, and each member's status is the one of its own behaviour.
C4_OneOutcomePerMember ==
    (ra_pc = "done" /\ ~shutdown) =>
        /\ HsIds(ra_stats) = ra_list
        /\ count_status(ra_stats, "Ok") + count_status(ra_stats, "Error")
             + count_status(ra_stats, "Panic") + count_status(ra_stats, "Timeout")
             + count_status(ra_stats, "FailedToBuild") = Len(ra_list)
        /\ \A i \in DOMAIN ra_stats :
              /\ hs_outcome[ra_list[i]] \in Outcomes
              /\ ra_stats[i].status = StatusOfOutcome(hs_outcome[ra_list[i]])

C4_Witness ==
    /\ ra_pc = "done"
    /\ ~shutdown
    /\ Len(ra_list) = 3
    /\ hs_outcome[ra_list[1]] = "Panicked"
    /\ hs_outcome[ra_list[2]] = "BuildErr"
    /\ hs_outcome[ra_list[3]] = "Ok"
    /\ count_status(ra_stats, "Panic") = 1
    /\ count_status(ra_stats, "Ok") = 1

\* C5 as stated: in every execution the statistics returned by run_default
\* hold exactly one entry, for D, whatever the shutdown flag.
C5_AlwaysOneOutcome ==
    rd_pc = "done" => (Len(rd_stats) = 1 /\ rd_stats[1].hs_id = DefaultHs)

\* C5 amended: run_default returns exactly one entry, for D, with the status
\* of D's own behaviour, whenever the shutdown flag is not set on entry; when
\* it is set on entry nothing is built and the statistics are empty.
C5_OneOutcomeUnlessShutdown ==
    [][/\ (rd_pc = "start" /\ rd_pc' # "start") =>
             IF shutdown
             THEN rd_pc' = "done" /\ rd_stats' = <<>> /\ hs_outcome' = hs_outcome
             ELSE rd_pc' = "build" /\ rd_stats' = <<>>
       /\ (rd_pc \in {"build", "run"} /\ rd_pc' = "done") =>
             /\ Len(rd_stats') = 1
             /\ rd_stats'[1].hs_id = DefaultHs
             /\ rd_stats'[1].status = StatusOfOutcome(hs_outcome'[DefaultHs])
             /\ ra_stats' = ra_stats
       /\ (rd_pc = "done") => (rd_stats' = rd_stats /\ rd_pc' = "done")]_vars

C5_Witness ==
    /\ rd_pc = "done"
    /\ Len(rd_stats) = 1
    /\ rd_stats[1].status = "FailedToBuild"
    /\ shutdown
    /\ Len(ra_list) = MaxPool
    /\ ra_pc = "run"
    /\ count_status(ra_stats, "Panic") = 1

\* Position i of the list has passed the shutdown check of the loop.
RaStarted(i) == i < ra_idx \/ (i = ra_idx /\ ra_pc \in {"build", "run"})

\* C6: once the shutdown signal is raised during run_all, no homeserver
\* that has not begun is built or run, the loop stops at its next check, the
\* homeserver that is running still gets its own outcome recorded, and the
\* statistics returned cover exactly the homeservers begun before.
C6_ShutdownStopsLoop ==
    [][/\ shutdown =>
             \A i \in DOMAIN ra_list :
                 ~RaStarted(i) =>
                     /\ ~RaStarted(i)'
                     /\ hs_outcome'[ra_list[i]] = hs_outcome[ra_list[i]]
       /\ (shutdown /\ ra_pc = "check" /\ ra_pc' # ra_pc) =>
             (ra_pc' = "done" /\ ra_stats' = ra_stats)
       /\ (ra_pc = "run" /\ ra_pc' # "run") =>
             /\ hs_outcome'[ra_list[ra_idx]] \in RunResults
             /\ ra_stats' = Append(ra_stats,
                   [hs_id |-> ra_list[ra_idx],
                    status |-> StatusOfOutcome(hs_outcome'[ra_list[ra_idx]])])
       /\ (ra_pc' = "done") =>
             /\ HsIds(ra_stats') = SubSeq(ra_list', 1, ra_idx' - 1)
             /\ \A i \in DOMAIN ra_list' : RaStarted(i)' <=> i \in DOMAIN ra_stats'
      ]_vars

C6_Witness ==
    /\ shutdown
    /\ ra_pc = "done"
    /\ Len(ra_list) = 3
    /\ Len(ra_stats) = 2
    /\ ra_stats[2].status = "Timeout"
    /\ hs_outcome[ra_list[3]] = "none"


\* ---------------------------------------------- claims on the processor
\* The processing of a line of the batch has come to its end
LineHandled(j) == ep_outcome[j].what \notin {"none", "retrying", "cursor_failed"}

\* An event line was applied, recorded for retry, or dropped with a log entry
EventSettled(j) ==
    ep_outcome[j].what \in
        {"applied", "retried", "discarded", "unhandled", "no_key", "write_failed"}

IsEvent(j) == feed[ep_lines[j]].kind = "event"

\* C7: at the moment a cursor is persisted, every event line before that
\* cursor line in the batch has been fully handled (applied, recorded in the
\* retry queue or discarded): the persisted cursor is never ahead of the
\* processing.
C7_CursorAfterEvents ==
    [][index_cursor' # index_cursor =>
          /\ ep_pc = "persist"
          /\ feed[ep_lines[ep_i]].kind = "cursor"
          /\ index_cursor' = ep_lines[ep_i]
          /\ \A j \in 1..(ep_i - 1) :
                /\ LineHandled(j)
                /\ IsEvent(j) => EventSettled(j)]_vars

C7_Witness ==
    /\ Len(ep_lines) = 2
    /\ IsEvent(1)
    /\ ep_outcome[1].what = "retried"
    /\ ep_outcome[2].what = "cursor"
    /\ index_cursor = ep_lines[2]

\* No cursor line of the batch has been reached by the loop
NoCursorReached ==
    /\ ep_lines # <<>>
    /\ \A j \in DOMAIN ep_outcome : ep_outcome[j].what \notin {"cursor", "cursor_failed"}
    /\ ep_pc # "persist"
    /\ \A j \in 1..(ep_i - 1) : feed[ep_lines[j]].kind # "cursor"

\* C8: when the processing of a batch stops before a cursor line is reached
\* (shutdown seen between two lines, or a crash), the persisted cursor is the
\* one the poll started from, so that the next poll, from the persisted
\* cursor, is sent the same cursor and delivers the same lines again.
C8_ReplayFromSameCursor ==
    NoCursorReached =>
        /\ index_cursor = ep_polled_from
        /\ poll_events(index_cursor) = ep_lines

\* A batch is polled again after a crash that followed the recording of a
\* retry for its first event and came before its cursor line.
C8_Witness ==
    /\ NoCursorReached
    /\ ep_pc = "lines"
    /\ ep_i = 1
    /\ ep_outcome[1].what = "none"
    /\ Len(ep_lines) = 2
    /\ feed[ep_lines[2]].kind = "cursor"
    /\ feed[ep_lines[1]] = [kind |-> "event", op |-> "PUT", uri |-> "uri1"]
    /\ retry_queue = {[index_key |-> "PUT:idx(uri1)",
                        error_type |-> "PubkyClientError"]}
    /\ index_cursor = 0
    /\ ~shutdown

\* The positions of the event lines among the first k lines of the batch
EventPositions(lines, k) ==
    SelectSeq([j \in 1..k |-> j], LAMBDA j : feed[lines[j]].kind = "event")

\* C9: a line that fails to parse, or whose handler fails, does not abort the
\* batch: the loop goes on to the next line, run fails only on a failed poll
\* or a failed cursor write, without shutdown every line is processed, and
\* which events are dispatched depends on the lines only.
C9_FailureDoesNotAbort ==
    [][/\ (ep_pc = "lines" /\ ep_pc' # "idle" /\ ~shutdown /\ ep_i <= Len(ep_lines)
             /\ ep_i' # ep_i) =>
             (ep_i' = ep_i + 1 /\ ep_pc' = "lines")
       /\ (ep_pc \in {"handle", "retry_put"} /\ ep_pc' \notin {ep_pc, "idle"}) =>
             \/ ep_pc = "handle" /\ ep_pc' = "retry_put" /\ ep_i' = ep_i
             \/ ep_pc' = "lines" /\ ep_i' = ep_i + 1
       /\ (ep_pc' = "failed" /\ ep_pc # "failed") => ep_pc \in {"idle", "persist"}
       /\ (ep_pc' = "done" /\ ep_pc = "lines" /\ ~shutdown) =>
             /\ ep_i' = Len(ep_lines') + 1
             /\ \A j \in DOMAIN ep_lines' : LineHandled(j)'
             /\ ep_dispatched' = EventPositions(ep_lines', Len(ep_lines'))
       /\ ep_pc' \in {"lines", "persist", "handle", "retry_put"} =>
             ep_dispatched' =
                 EventPositions(ep_lines', IF ep_pc' \in {"handle", "retry_put"}
                                           THEN ep_i' ELSE ep_i' - 1)
      ]_vars

C9_Witness ==
    /\ ep_pc = "done"
    /\ ~shutdown
    /\ Len(ep_lines) = 2
    /\ IsEvent(1)
    /\ ep_outcome[1].what = "unhandled"
    /\ ep_outcome[2].what = "applied"
    /\ ep_dispatched = <<1, 2>>

\* The event of a line has a key in the retry index
HasRetryKey(line) == (line.op \o ":" \o generate_index_key(line.uri)) \in RetryKeys

\* A retry record for the event of a line is in the retry queue
RetryRecordOf(line) ==
    LET key == line.op \o ":" \o generate_index_key(line.uri)
    IN  \E r \in retry_queue : r.index_key = key

\* handle_event has returned for line j and its handler had failed with error
HandlerFailed(j) ==
    /\ IsEvent(j)
    /\ ep_outcome[j].error # "-"
    /\ ep_outcome[j].what # "retrying"

RetryKeyOf(line) == line.op \o ":" \o generate_index_key(line.uri)

\* C11 as stated: the classification of a handler error is two-valued: an
\* InvalidEventLine error is discarded and produces no retry record, and every
\* other handler error is wrapped as a RetryEvent carrying that error kind.
\* (Stated for the events that have a retry key.)
C11_TwoValued ==
    [][(/\ ep_pc = "handle"
        /\ ep_pc' \in {"lines", "retry_put"}
        /\ HasRetryKey(CurLine)
        /\ ep_outcome'[ep_i].error # "-") =>
           IF ep_outcome'[ep_i].error = "InvalidEventLine"
           THEN ep_outcome'[ep_i].what = "discarded" /\ ep_pc' = "lines"
           ELSE ep_outcome'[ep_i].what = "retrying" /\ ep_pc' = "retry_put"]_vars

\* C11 amended: an InvalidEventLine error is discarded and never produces a
\* retry record; every other EventProcessorError is wrapped as a RetryEvent
\* carrying that error kind when a retry key can be derived from the uri; an
\* error that is not an EventProcessorError is logged and produces no retry
\* record.
C11_Classification ==
    [][/\ (ep_pc = "handle" /\ ep_pc' \in {"lines", "retry_put"}) =>
             LET o == ep_outcome'[ep_i]
             IN  /\ o.error = "InvalidEventLine" =>
                        (o.what = "discarded" /\ ep_pc' = "lines")
                 /\ (o.error \in RetryableErrors /\ HasRetryKey(CurLine)) =>
                        (o.what = "retrying" /\ ep_pc' = "retry_put")
                 /\ o.error = "NotProcessorError" =>
                        (o.what = "unhandled" /\ ep_pc' = "lines")
       /\ (ep_pc = "retry_put" /\ ep_pc' = "lines"
              /\ ep_outcome'[ep_i].what = "retried") =>
             [index_key |-> RetryKeyOf(CurLine),
              error_type |-> ep_outcome[ep_i].error] \in retry_queue'
       /\ \A r \in retry_queue' :
             r.error_type \notin {"InvalidEventLine", "NotProcessorError"}
      ]_vars

\* A batch whose first event was discarded as malformed and whose second
\* event was recorded for retry with the error of its handler.
C11_Witness ==
    /\ Len(ep_lines) = 2
    /\ IsEvent(1)
    /\ ep_outcome[1] = [what |-> "discarded", error |-> "InvalidEventLine"]
    /\ IsEvent(2)
    /\ ep_outcome[2] = [what |-> "retried", error |-> "PubkyClientError"]
    /\ [index_key |-> RetryKeyOf(feed[ep_lines[2]]),
        error_type |-> "PubkyClientError"] \in retry_queue
    /\ Cardinality(retry_queue) = 1

\* C12: the retry record of a failed event is stored under the key
\* "{operation}:{index(uri)}", a function of the operation and the uri alone,
\* and storing replaces: after any number of failures of one event the queue
\* holds exactly one record under its key, events that differ in operation or
\* uri have different keys, and a failure of one leaves the records of the
\* others as they were.
C12_OneRecordPerKey ==
    [][/\ \A r1, r2 \in retry_queue' : r1.index_key = r2.index_key => r1 = r2
       /\ \A e1, e2 \in EventLines :
             (HasRetryKey(e1) /\ HasRetryKey(e2) /\ e1 # e2) =>
                RetryKeyOf(e1) # RetryKeyOf(e2)
       /\ (ep_pc = "retry_put" /\ ep_pc' = "lines"
              /\ ep_outcome'[ep_i].what = "retried") =>
             LET key == CurLine.op \o ":" \o generate_index_key(CurLine.uri)
             IN  /\ Cardinality({r \in retry_queue' : r.index_key = key}) = 1
                 /\ {r \in retry_queue' : r.index_key # key}
                       = {r \in retry_queue : r.index_key # key}
       /\ ~(ep_pc = "retry_put" /\ ep_pc' = "lines") =>
             retry_queue' = retry_queue]_vars

\* The same event failed twice in one batch, with two different errors, and
\* the queue holds the one record of the second failure.
C12_Witness ==
    /\ Len(ep_lines) = 2
    /\ feed[ep_lines[1]] = [kind |-> "event", op |-> "PUT", uri |-> "uri1"]
    /\ feed[ep_lines[2]] = feed[ep_lines[1]]
    /\ ep_outcome[1] = [what |-> "retried", error |-> "PubkyClientError"]
    /\ ep_outcome[2] = [what |-> "retried", error |-> "OtherProcessorError"]
    /\ retry_queue = {[index_key |-> "PUT:idx(uri1)",
                        error_type |-> "OtherProcessorError"]}

\* C13: process_event_lines reads the shutdown flag before every line; once
\* it reads it set it returns success at once, and no line at or after that
\* position is parsed, dispatched or used to update the cursor.
C13_ShutdownBeforeEachLine ==
    [][/\ (ep_pc = "lines" /\ shutdown /\ ep_pc' # "idle") =>
             /\ ep_pc' = "done"
             /\ UNCHANGED <<ep_i, ep_outcome, ep_dispatched, ep_cursor,
                            index_cursor, retry_queue>>
       /\ (ep_pc = "lines" /\ (ep_pc' \in {"handle", "persist"} \/ ep_i' = ep_i + 1)) =>
             ~shutdown
       /\ ep_pc' = "done" =>
             \A j \in ep_i'..Len(ep_lines') :
                /\ ep_outcome'[j] = NotYet
                /\ j \notin Range(ep_dispatched')]_vars

\* The flag was set while the first event of a batch of two was handled: the
\* first event is applied, the second is left untouched and run has returned.
C13_Witness ==
    /\ shutdown
    /\ ep_pc = "done"
    /\ Len(ep_lines) = 2
    /\ ep_i = 2
    /\ ep_outcome[1].what = "applied"
    /\ IsEvent(2)
    /\ ep_outcome[2] = NotYet
    /\ ep_dispatched = <<1>>

\* C14: within one run the events are handled strictly one at a time in feed
\* order: the handler of a line has returned before the handler of a later
\* line starts, and the events dispatched are the well-formed non-cursor
\* lines, in their order in the feed.
C14_OneAtATimeInOrder ==
    /\ \A a, b \in DOMAIN ep_dispatched :
          a < b => ep_dispatched[a] < ep_dispatched[b]
    /\ \A a \in DOMAIN ep_dispatched :
          /\ IsEvent(ep_dispatched[a])
          /\ IF a < Len(ep_dispatched) \/ ep_pc \notin {"handle", "retry_put"}
             THEN EventSettled(ep_dispatched[a])
             ELSE ep_dispatched[a] = ep_i
    /\ \A j \in DOMAIN ep_lines :
          (IsEvent(j) /\ j < ep_i) => j \in Range(ep_dispatched)
    /\ \A j \in DOMAIN ep_lines :
          (j > ep_i \/ ~IsEvent(j)) => j \notin Range(ep_dispatched)

\* The handler of the second event of a batch runs after the handler of the
\* first has returned, its failure recorded for retry.
C14_Witness ==
    /\ ep_pc = "handle"
    /\ ep_i = 2
    /\ Len(ep_lines) = 2
    /\ ep_dispatched = <<1, 2>>
    /\ ep_outcome[1].what = "retried"
    /\ ep_outcome[2] = NotYet

\* The response to a poll from cursor c holds no line, or blank lines only
BlankResponse(c) ==
    \A k \in DOMAIN Response(c, EventsLimit) :
        feed[Response(c, EventsLimit)[k]].kind = "blank"

\* C15: when the response body is empty or white space only, the poll reports
\* no new events: run returns success, no line is dispatched, nothing is
\* written to the retry queue, and the cursor, in memory and persisted, is
\* unchanged.
C15_BlankResponseNoEvents ==
    [][(ep_pc = "idle" /\ ep_pc' \notin {"idle", "failed"}
          /\ BlankResponse(ep_cursor)) =>
             /\ ep_pc' = "done"
             /\ ep_lines' = <<>>
             /\ ep_dispatched' = <<>>
             /\ UNCHANGED <<retry_queue, ep_cursor, index_cursor>>]_vars

\* A poll from cursor 1 was answered with one blank line and run returned.
C15_Witness ==
    /\ ep_pc = "done"
    /\ ep_polled_from = 1
    /\ Response(1, EventsLimit) # <<>>
    /\ BlankResponse(1)
    /\ ep_lines = <<>>
    /\ ep_cursor = 1
    /\ index_cursor = 1

\* C16 as stated: run returns an error exactly when the poll fails, with no
\* line processed and the cursor unchanged; a failure of a per-line handler
\* never makes run return an error.
C16_ErrorOnlyFromPoll ==
    [][/\ (ep_pc' = "failed" /\ ep_pc # "failed") =>
             /\ ep_pc = "idle"
             /\ ep_lines' = <<>>
             /\ ep_dispatched' = <<>>
             /\ UNCHANGED <<ep_cursor, index_cursor, retry_queue>>
       /\ ep_pc \in {"handle", "retry_put"} => ep_pc' # "failed"]_vars

\* C16 amended: run returns an error exactly when the poll fails or the write
\* of a cursor to the index fails. A poll failure is returned with no line
\* processed and the cursor unchanged; a failed cursor write is returned at
\* its cursor line and leaves the persisted cursor as it was; a failure of a
\* per-line handler never makes run return an error.
C16_ErrorFromPollOrCursorWrite ==
    [][/\ (ep_pc' = "failed" /\ ep_pc # "failed") =>
             \/ /\ ep_pc = "idle"
                /\ ep_lines' = <<>>
                /\ ep_dispatched' = <<>>
                /\ UNCHANGED <<ep_cursor, index_cursor, retry_queue>>
             \/ /\ ep_pc = "persist"
                /\ CurLine.kind = "cursor"
                /\ ep_outcome'[ep_i].what = "cursor_failed"
                /\ UNCHANGED <<index_cursor, retry_queue, ep_i, ep_dispatched>>
       /\ ep_pc \in {"handle", "retry_put"} => ep_pc' # "failed"
       /\ (ep_pc' = "done" /\ ep_pc # "done") =>
             \A j \in DOMAIN ep_outcome' : ep_outcome'[j].what # "cursor_failed"]_vars

\* A second run, from the persisted cursor 1, whose poll failed.
C16_Witness ==
    /\ ep_pc = "failed"
    /\ ep_lines = <<>>
    /\ ep_polled_from = 1
    /\ ep_cursor = 1
    /\ index_cursor = 1

\* C36: whenever process_event_lines returns success, the cursor the
\* processor holds in memory equals the cursor persisted in the index; the
\* two differ only while a cursor is being written or after its write has
\* failed, and then process_event_lines returns the error and processes no
\* further line.
C36_CursorInStepWithIndex ==
    /\ [](ep_pc = "done" => ep_cursor = index_cursor)
    /\ [](ep_cursor # index_cursor =>
             /\ ep_pc \in {"persist", "failed"}
             /\ ep_pc = "failed" => ep_outcome[ep_i].what = "cursor_failed")
    /\ [][/\ (ep_pc = "persist" /\ ep_pc' \notin {"persist", "idle"}
                 /\ index_cursor' # ep_cursor') => ep_pc' = "failed"
          /\ (ep_pc = "failed" /\ ep_pc' # "idle") =>
                /\ ep_pc' = "failed"
                /\ UNCHANGED <<ep_i, ep_outcome, ep_dispatched, ep_cursor,
                               index_cursor, retry_queue>>]_vars

\* The write of the cursor of the first line failed: the index holds the
\* old cursor, the call returned the error and the event of the second
\* line was not looked at.
C36_Witness ==
    /\ ep_pc = "failed"
    /\ Len(ep_lines) = 2
    /\ ep_i = 1
    /\ ep_outcome[1].what = "cursor_failed"
    /\ ep_outcome[2] = NotYet
    /\ feed[ep_lines[2]].kind = "event"
    /\ ep_cursor = 1
    /\ index_cursor = 0
    /\ ep_dispatched = <<>>

\* A batch of an event and a cursor line processed to its end.
C36_WitnessSuccess ==
    /\ ep_pc = "done"
    /\ Len(ep_lines) = 2
    /\ ep_outcome[1].what = "applied"
    /\ ep_outcome[2].what = "cursor"
    /\ ep_cursor = 2
    /\ index_cursor = 2

\* C38: process_event_lines returns an error only when persisting a cursor
\* fails: lines that do not parse, handler errors of any kind, an event
\* without a retry key and a failed write of the retry record are all
\* absorbed; in the last two cases the event is neither applied nor put in
\* the retry queue, and the loop goes on to the next line.
C38_OnlyCursorWriteFails ==
    [][/\ (ep_pc \in {"lines", "handle", "retry_put"}) => ep_pc' # "failed"
       /\ (ep_pc = "lines" /\ ep_pc' = "lines" /\ ep_i' # ep_i) =>
             /\ ep_i' = ep_i + 1
             /\ ep_outcome'[ep_i].what \in {"badcursor", "unparsable", "blank"}
             /\ UNCHANGED <<retry_queue, index_cursor, ep_cursor>>
       /\ (ep_pc = "handle" /\ ep_pc' \notin {"handle", "idle"}) =>
             LET o == ep_outcome'[ep_i]
                 no_key == generate_index_key(CurLine.uri) = "None"
             IN  /\ retry_queue' = retry_queue
                 /\ o.what \in {"applied", "discarded", "unhandled", "no_key",
                                "retrying"}
                 /\ (o.what = "retrying") <=>
                       (ep_pc' = "retry_put" /\ ep_i' = ep_i)
                 /\ (o.what # "retrying") =>
                       (ep_pc' = "lines" /\ ep_i' = ep_i + 1)
                 /\ (o.error \in RetryableErrors /\ no_key) <=> o.what = "no_key"
                 /\ o.what = "applied" <=> o.error = "-"
       /\ (ep_pc = "retry_put" /\ ep_pc' \notin {"retry_put", "idle"}) =>
             /\ ep_pc' = "lines"
             /\ ep_i' = ep_i + 1
             /\ ep_outcome'[ep_i].what \in {"retried", "write_failed"}
             /\ ep_outcome'[ep_i].what = "write_failed" => retry_queue' = retry_queue
      ]_vars

\* The retry record of the first event could not be written: nothing is in
\* the retry queue, and the cursor line after it was processed and persisted.
C38_Witness ==
    /\ ep_pc = "done"
    /\ Len(ep_lines) = 2
    /\ ep_outcome[1].what = "write_failed"
    /\ ep_outcome[2].what = "cursor"
    /\ retry_queue = {}
    /\ ep_cursor = 2
    /\ index_cursor = 2

\* The first event failed with a retryable error and has no retry key.
C38_WitnessNoKey ==
    /\ ep_pc = "done"
    /\ Len(ep_lines) = 2
    /\ ep_outcome[1].what = "no_key"
    /\ ep_outcome[1].error = "PubkyClientError"
    /\ ep_outcome[2].what = "cursor"
    /\ retry_queue = {}
    /\ index_cursor = 2

\* ------------------------------------------ further claims on the runner
\* C17: failures of single homeservers are never returned as errors by the
\* runner: run_all fails only when the list of homeservers cannot be
\* resolved, run_default never fails, and a build failure, internal error,
\* panic or timeout of a homeserver is recorded as its status while the loop
\* goes on to the next homeserver.
C17_FailuresAreData ==
    [][/\ ra_pc' = "failed" => (ra_pc \in {"start", "failed"} /\ ra_stats' = <<>>)
       /\ rd_pc' \in {"start", "build", "run", "done"}
       /\ (ra_pc \in {"build", "run"} /\ ra_pc' \notin {ra_pc, "run"}) =>
             /\ ra_pc' = "check"
             /\ ra_idx' = ra_idx + 1
             /\ hs_outcome'[ra_list[ra_idx]] \in Outcomes
             /\ ra_stats' = Append(ra_stats,
                   [hs_id |-> ra_list[ra_idx],
                    status |-> StatusOfOutcome(hs_outcome'[ra_list[ra_idx]])])
       /\ (ra_pc = "check" /\ ra_pc' # "check" /\ ~shutdown
              /\ ra_idx <= Len(ra_list)) =>
             ra_pc' = "build"
       /\ (rd_pc \in {"build", "run"} /\ rd_pc' \notin {rd_pc, "run"}) =>
             /\ rd_pc' = "done"
             /\ hs_outcome'[DefaultHs] \in Outcomes]_vars

\* The first pool member failed to build, the second ended with an internal
\* error, the third is running; the default homeserver panicked.
C17_Witness ==
    /\ ra_pc = "run"
    /\ ra_idx = 3
    /\ Len(ra_stats) = 2
    /\ ra_stats[1].status = "FailedToBuild"
    /\ ra_stats[2].status = "Error"
    /\ rd_pc = "done"
    /\ Len(rd_stats) = 1
    /\ rd_stats[1].status = "Panic"

\* C18: run_default and run_all, invoked concurrently, do not wait on each
\* other: whenever the processor of the default homeserver finishes,
\* run_default completes, with the outcome of the default homeserver alone,
\* also while run_all stays in a slow pool member for ever.
C18_RunDefaultIndependent ==
    /\ <>(rd_pc = "done")
    /\ [](rd_pc = "done" =>
            \/ rd_stats = <<>> /\ hs_outcome[DefaultHs] = "none"
            \/ /\ hs_outcome[DefaultHs] \in Outcomes
               /\ rd_stats = <<[hs_id |-> DefaultHs,
                                status |-> StatusOfOutcome(hs_outcome[DefaultHs])]>>)

\* run_default has returned while run_all is still in the run of the first
\* of its pool members.
C18_Witness ==
    /\ rd_pc = "done"
    /\ Len(rd_stats) = 1
    /\ rd_stats[1].status = "Ok"
    /\ ra_pc = "run"
    /\ ra_idx = 1
    /\ ra_stats = <<>>
    /\ Len(ra_list) = MaxPool

\* The tasks whose processor for homeserver h is being built or run
ProcessorsOf(h) ==
    {t \in {"run_default", "run_all"} :
        \/ t = "run_default" /\ h = DefaultHs /\ rd_pc \in {"build", "run"}
        \/ t = "run_all" /\ ra_pc \in {"build", "run"} /\ ra_list[ra_idx] = h}

C31_ShutdownOnEntrySkipsDefault ==
    [][/\ (rd_pc = "start" /\ shutdown /\ rd_pc' # "start") =>
             /\ rd_pc' = "done"
             /\ rd_stats' = <<>>
             /\ hs_outcome'[DefaultHs] = "none"
       /\ (rd_pc = "done" /\ rd_stats = <<>>) =>
             /\ rd_pc' = "done"
             /\ rd_stats' = <<>>
             /\ hs_outcome'[DefaultHs] = "none"]_vars

\* run_default has returned without a processor for the default homeserver
\* while run_all, begun before the signal, is still in its second member.
C31_Witness ==
    /\ shutdown
    /\ rd_pc = "done"
    /\ rd_stats = <<>>
    /\ hs_outcome[DefaultHs] = "none"
    /\ ra_pc = "run"
    /\ ra_idx = 2

\* C37: the statistics of run_all list the homeservers in the order they
\* were run, a prefix of the list of pre_run_all: no homeserver twice, the
\* next homeserver built only once the outcome of the one before is
\* recorded, and a homeserver in the statistics exactly when its build was
\* attempted.
C37_StatsInRunOrder ==
    /\ [](ra_pc \notin {"start", "failed"} =>
             /\ Len(ra_stats) = ra_idx - 1
             /\ Len(ra_stats) <= Len(ra_list)
             /\ HsIds(ra_stats) = SubSeq(ra_list, 1, Len(ra_stats))
             /\ \A i, j \in DOMAIN ra_stats :
                   i # j => ra_stats[i].hs_id # ra_stats[j].hs_id
             /\ \A i \in DOMAIN ra_list :
                   hs_outcome[ra_list[i]] # "none" <=> i \in DOMAIN ra_stats)
    /\ [][/\ (ra_pc # "build" /\ ra_pc' = "build") =>
                /\ Len(ra_stats') = ra_idx' - 1
                /\ \A i \in 1..(ra_idx' - 1) : hs_outcome'[ra_list'[i]] # "none"
                /\ hs_outcome'[ra_list'[ra_idx']] = "none"
          /\ \A h \in PoolHs :
                hs_outcome'[h] # hs_outcome[h] =>
                   /\ h = ra_list[Len(ra_stats) + 1]
                   /\ Len(ra_stats') = Len(ra_stats) + 1
                   /\ ra_stats'[Len(ra_stats')].hs_id = h
                   /\ SubSeq(ra_stats', 1, Len(ra_stats)) = ra_stats]_vars

\* hs2 failed to build, hs3 ran, and hs1 is now being built.
C37_Witness ==
    /\ ra_pc = "build"
    /\ ra_list = <<"hs2", "hs3", "hs1">>
    /\ ra_idx = 3
    /\ HsIds(ra_stats) = <<"hs2", "hs3">>
    /\ ra_stats[1].status = "FailedToBuild"
    /\ ra_stats[2].status = "Ok"
    /\ hs_outcome["hs1"] = "none"

\* ------------------------------------------------------ claims on the lists
IsPrefix(p, q) == Len(p) <= Len(q) /\ SubSeq(q, 1, Len(p)) = p

\* C20: after any sequence of puts to one key the list holds every value ever
\* passed exactly once, in the order of the first occurrences across the
\* calls and within each call; put [a,b,a,c] followed by put [a,d] yields
\* [a,b,c,d], and repeating a put does not change the list.
C20_FirstOccurrenceOrder ==
    /\ ls_list = ls_first
    /\ \A i, j \in DOMAIN ls_list : ls_list[i] = ls_list[j] => i = j
    /\ ls_pc = "returned" =>
          /\ {ls_list[i] : i \in DOMAIN ls_list}
                = {ls_prev[i] : i \in DOMAIN ls_prev}
                    \cup {ls_args[i] : i \in DOMAIN ls_args}
          /\ IsPrefix(ls_prev, ls_list)
          /\ SubSeq(ls_list, Len(ls_prev) + 1, Len(ls_list))
                = FirstOccurrences(SelectSeq(ls_args,
                      LAMBDA v : \A i \in DOMAIN ls_prev : ls_prev[i] # v))
          /\ lists_put(ls_list, ls_args) = ls_list
          /\ ls_args = <<>> => ls_list = ls_prev
    /\ lists_put(lists_put(<<>>, <<"a", "b", "a", "c">>), <<"a", "d">>)
          = <<"a", "b", "c", "d">>

\* put [a,d] on the list [a,b,c] that put [a,b,a,c] left
C20_Witness ==
    /\ ls_pc = "returned"
    /\ ls_n = 2
    /\ ls_prev = <<"a", "b", "c">>
    /\ ls_prev = lists_put(<<>>, <<"a", "b", "a", "c">>)
    /\ ls_args = <<"a", "d">>
    /\ ls_list = <<"a", "b", "c", "d">>

\* C21: put with an empty slice does nothing: the list it leaves is the list
\* it found, so a key that was absent is still absent and a get_range that
\* follows returns None.
C21_EmptyPutNoOp ==
    /\ ls_pc = "returned" /\ ls_args = <<>> =>
          /\ ls_list = ls_prev
          /\ ls_prev = <<>> => \A skip, limit \in RangeArgs :
                                   get_range(ls_list, skip, limit) = NoRange
    /\ ls_pc = "read" /\ ls_list = <<>> => ls_result = NoRange

\* an empty put on the list [a,b] has just returned
C21_Witness ==
    /\ ls_pc = "returned"
    /\ ls_args = <<>>
    /\ ls_prev = <<"a", "b">>
    /\ ls_list = <<"a", "b">>

\* the key is read after an empty put on the absent key
C21_WitnessAbsent ==
    /\ ls_pc = "read"
    /\ ls_n >= 1
    /\ ls_list = <<>>
    /\ ls_result = NoRange

\* C22: under every interleaving of concurrent puts on one key the list never
\* holds a value twice, and every change of the list a reader can see adds
\* all the new values of one call at once.
C22_PutIsAtomic ==
    /\ [](\A i, j \in DOMAIN ls_list : ls_list[i] = ls_list[j] => i = j)
    /\ [][ls_list' # ls_list =>
            \E p \in Putters :
                /\ lc_pc[p] = "invoked"
                /\ lc_pc'[p] = "done"
                /\ \A q \in Putters \ {p} : lc_pc'[q] = lc_pc[q]
                /\ ls_list' = FirstOccurrences(ls_list \o lc_args[p])]_vars

\* p1's script has run while p2, which passed an overlapping slice, waits
C22_Witness ==
    /\ lc_pc["p1"] = "done"
    /\ lc_pc["p2"] = "invoked"
    /\ lc_args["p1"] = <<"a", "b">>
    /\ lc_args["p2"] = <<"b", "c">>
    /\ ls_list = <<"a", "b">>

\* What get_range is to return without a limit: the elements from position
\* skip to the last
FromSkip(list, skip) ==
    IF unwrap_or(skip, 0) >= Len(list) THEN NoRange
    ELSE SomeRange(SubSeq(list, unwrap_or(skip, 0) + 1, Len(list)))

\* C23: get_range without a limit returns every element from position skip
\* through the last one, in list order.
C23_SkipToEnd ==
    ls_pc = "read" /\ ls_limit = NoUsize => ls_result = FromSkip(ls_list, ls_skip)

\* the read of [a,b,c,d] from position 2 on, without a limit
C23_Witness ==
    /\ ls_pc = "read"
    /\ ls_skip = 2
    /\ ls_limit = NoUsize
    /\ ls_list = <<"a", "b", "c", "d">>
    /\ ls_result = NoRange

\* the read of [a,b,c] with neither skip nor limit
C23_WitnessWhole ==
    /\ ls_pc = "read"
    /\ ls_skip = NoUsize
    /\ ls_limit = NoUsize
    /\ ls_list = <<"a", "b", "c">>
    /\ ls_result = SomeRange(<<"a", "b">>)

\* The elements of the list at the 0-based positions skip .. skip+limit-1
\* that exist, None when there is none
Window(list, skip, limit) ==
    LET last == IF skip + limit < Len(list) THEN skip + limit ELSE Len(list)
    IN  IF limit = 0 \/ skip >= Len(list) THEN NoRange
        ELSE SomeRange(SubSeq(list, skip + 1, last))

\* C33: get_range(skip = s, limit = n) returns at most n elements, namely
\* the elements at positions s .. s+n-1 that exist in the list, for every
\* s >= 0 and every n >= 0: n = 0 yields None, and so does an s at or past
\* the end of the list.
C33_WindowOfAtMostLimit ==
    (ls_pc = "read" /\ ls_skip # NoUsize /\ ls_limit # NoUsize) =>
        /\ ls_result = Window(ls_list, ls_skip, ls_limit)
        /\ Len(ls_result.value) <= ls_limit

\* the read of [a,b,c] with skip 0 and limit 0 returns the whole list
C33_Witness ==
    /\ ls_pc = "read"
    /\ ls_skip = 0
    /\ ls_limit = 0
    /\ ls_list = <<"a", "b", "c">>
    /\ ls_result = SomeRange(<<"a", "b", "c">>)

\* the read of [a,b,c,d] with skip 1 and limit 2 returns [b,c]
C33_WitnessInside ==
    /\ ls_pc = "read"
    /\ ls_skip = 1
    /\ ls_limit = 2
    /\ ls_list = <<"a", "b", "c", "d">>
    /\ ls_result = SomeRange(<<"b", "c">>)

\* ------------------------------------------- claims on the user search index
\* The members of the name index that belong to a user
MembersOf(user_id) == {m \in sx_name : ends_with(m, <<":">> \o user_id)}

\* The ids a search result names
IdsOf(result) == {result.value[i] : i \in DOMAIN result.value}

\* C24 as stated: after any sequence of put_to_index calls for a user with
\* successive names the name index holds exactly one member of the user,
\* lowercase(latest name):id, none for an earlier name, and the id index
\* holds the id.
C24_OneMemberPerUser ==
    \A u \in UserIds :
        sx_hist[u].state = "named" =>
            /\ MembersOf(u) = {NameMember(to_lowercase(sx_hist[u].name), u)}
            /\ u \in sx_id

\* C24 as amended: the same for every latest name but "[DELETED]"; a user
\* whose latest name is "[DELETED]" has no member in the name index and is
\* not in the id index.
C24_OneMemberUnlessDeleted ==
    \A u \in UserIds :
        sx_hist[u].state = "named" =>
            IF sx_hist[u].name = DeletedName
            THEN MembersOf(u) = {} /\ u \notin sx_id
            ELSE /\ MembersOf(u) = {NameMember(to_lowercase(sx_hist[u].name), u)}
                 /\ Cardinality(MembersOf(u)) = 1
                 /\ u \in sx_id

\* x renamed to "ob" by its second call, next to y indexed as "Bo"
C24_Witness ==
    /\ sx_hist[<<"x">>] = [state |-> "named", name |-> <<"o", "b">>, puts |-> 2]
    /\ sx_hist[<<"y">>].state = "named"
    /\ sx_name = {<<"o", "b", ":", "x">>, <<"b", "o", ":", "y">>}
    /\ sx_id = {<<"x">>, <<"y">>}

\* C25: after delete_from_index of a user, whatever was put before, neither
\* index holds a member of the user and no prefix search, for a former name
\* or any other prefix, returns the user.
C25_NoOrphanAfterDelete ==
    \A u \in UserIds :
        sx_hist[u].state = "deleted" =>
            /\ MembersOf(u) = {}
            /\ u \notin sx_id
            /\ \A p \in UserNames \cup NamePrefixes :
                   u \notin IdsOf(get_by_name(sx_name, p))
            /\ sx_pc = "read" => u \notin IdsOf(sx_result)

\* x deleted after two names, and searched for by its last name's prefix,
\* while y keeps the same name
C25_Witness ==
    /\ sx_hist[<<"x">>] = [state |-> "deleted", name |-> <<"B", "o">>, puts |-> 2]
    /\ sx_hist[<<"y">>] = [state |-> "named", name |-> <<"b", "O">>, puts |-> 1]
    /\ sx_pc = "read"
    /\ sx_prefix = <<"b", "o">>
    /\ sx_result = SomeUsers(<< <<"y">> >>)

\* The tasks whose call has returned
Finished(t) == sc_pc[t] = "idle" /\ sc_details[t] # <<>>

\* C26: a user id is in the name index at most once at any time, and once
\* all concurrent put_to_index calls for it have finished the index holds
\* exactly one member for it.
C26_OnceUnderConcurrentRenames ==
    /\ \A u \in UserIds : Cardinality(MembersOf(u)) <= 1
    /\ (\A t \in SearchTasks : Finished(t)) =>
           \A t \in SearchTasks : Cardinality(MembersOf(sc_details[t][1].id)) = 1

\* both calls for x have finished and both their members are in the index
C26_Witness ==
    /\ \A t \in SearchTasks : Finished(t)
    /\ sc_details["t1"] = << [id |-> <<"x">>, name |-> <<"b">>] >>
    /\ sc_details["t2"] = << [id |-> <<"x">>, name |-> <<"B", "o">>] >>
    /\ sx_name = {<<"b", ":", "x">>, <<"b", "o", ":", "x">>}

\* The users a search for a prefix is to return: those indexed under a name
\* whose lowercase form starts with the lowercase form of the prefix
Matching(name_prefix) ==
    {u \in UserIds : /\ sx_hist[u].state = "named"
                     /\ sx_hist[u].name # DeletedName
                     /\ starts_with(to_lowercase(sx_hist[u].name),
                                    to_lowercase(name_prefix))}

\* C27: get_by_name returns the id of every indexed user whose lowercased
\* name starts with the lowercased prefix, and of no other user.
C27_PrefixSearchExact ==
    sx_pc = "read" => IdsOf(sx_result) = Matching(sx_prefix)

\* x is indexed as "bé" and the search for "B" does not return it
C27_Witness ==
    /\ sx_pc = "read"
    /\ sx_prefix = <<"B">>
    /\ sx_hist[<<"x">>].state = "named"
    /\ sx_hist[<<"x">>].name = <<"b", "é">>
    /\ sx_hist[<<"y">>].state = "named"
    /\ sx_hist[<<"y">>].name = <<"B", "o">>
    /\ sx_name = {<<"b", "é", ":", "x">>, <<"b", "o", ":", "y">>}
    /\ sx_result = SomeUsers(<< <<"y">> >>)

\* ----------------------------------------------- claims on the relationships
\* C28: get_by_ids returns one entry per entry of user_ids, the i-th about
\* user_ids[i]: None everywhere when there is no viewer or the viewer has no
\* counts record, None where the user has no counts record, and otherwise
\* the three memberships of that very user.
C28_AlignedWithUserIds ==
    rl_pc = "read" =>
        /\ Len(rl_result) = Len(rl_user_ids)
        /\ \A i \in DOMAIN rl_user_ids :
              LET u == rl_user_ids[i]
              IN  IF \/ rl_viewer = NoViewer
                     \/ rl_viewer \notin rl_counts
                     \/ u \notin rl_counts
                  THEN rl_result[i] = NoRelationship
                  ELSE rl_result[i] =
                          SomeRelationship(<<rl_viewer, u>> \in rl_followers,
                                           <<u, rl_viewer>> \in rl_followers,
                                           <<rl_viewer, u>> \in rl_muted)

\* a, who has no counts record, is asked about before b and v
C28_Witness ==
    /\ rl_pc = "read"
    /\ rl_viewer = "v"
    /\ rl_counts = {"v", "b"}
    /\ rl_followers = {<<"v", "b">>, <<"a", "v">>}
    /\ rl_muted = {<<"v", "a">>}
    /\ rl_user_ids = <<"a", "b", "v">>
    /\ rl_result = <<NoRelationship,
                     SomeRelationship(TRUE, FALSE, FALSE),
                     SomeRelationship(FALSE, FALSE, FALSE)>>

\* C32: the batched and the single-pair lookups agree: for every viewer,
\* every list of user ids and every state of the follower and muted sets,
\* position i of get_by_ids(user_ids, viewer) equals
\* get_by_id(user_ids[i], viewer), field by field; and what get_by_id gives
\* for one user is what get_by_ids gives for the list of that user alone.
C32_BatchAgreesWithSingle ==
    /\ rl_pc = "read" =>
          \A i \in DOMAIN rl_user_ids :
              rl_result[i] = get_by_id(rl_counts, rl_followers, rl_muted,
                                       rl_user_ids[i], rl_viewer)
    /\ rl_pc = "read_one" =>
          rl_result = get_by_ids(rl_counts, rl_followers, rl_muted,
                                 rl_user_ids, rl_viewer)

\* a is in the Followers set of v and v is not in the one of a: the batch
\* reports following for a, the single lookup reports followed_by.
C32_Witness ==
    /\ rl_pc = "read"
    /\ rl_viewer = "v"
    /\ rl_counts = {"v", "a"}
    /\ rl_followers = {<<"v", "a">>}
    /\ rl_user_ids = <<"a">>
    /\ rl_result = <<SomeRelationship(TRUE, FALSE, FALSE)>>
    /\ get_by_id(rl_counts, rl_followers, rl_muted, "a", "v")
          = SomeRelationship(FALSE, TRUE, FALSE)

\* The same index read by get_by_id.
C32_WitnessSingle ==
    /\ rl_pc = "read_one"
    /\ rl_viewer = "v"
    /\ rl_counts = {"v", "a"}
    /\ rl_followers = {<<"v", "a">>}
    /\ rl_user_ids = <<"a">>
    /\ rl_result = <<SomeRelationship(FALSE, TRUE, FALSE)>>

\* --------------------------------------- claims on the batched sorted sets
\* C29: the batched read returns one result per requested key, in the order
\* of the keys: None exactly where the key does not exist, and otherwise the
\* ranked range of that very key.
C29_OneResultPerKey ==
    zs_pc = "read" =>
        /\ zs_result.ok
        /\ Len(zs_result.value) = Len(zs_keys)
        /\ \A i \in DOMAIN zs_keys :
              IF zs_store[zs_keys[i]] = {}
              THEN zs_result.value[i] = NoScores
              ELSE zs_result.value[i] =
                      SomeScores(ZRANGEBYSCORE(zs_store[zs_keys[i]],
                                               unwrap_or(zs_skip, 0),
                                               unwrap_or(zs_limit, DefaultLimit),
                                               zs_sorting))

\* the missing key k1 is asked for before the existing k3
C29_Witness ==
    /\ zs_pc = "read"
    /\ zs_store["k1"] = {}
    /\ zs_store["k2"] = {<<"m1", 1>>}
    /\ zs_store["k3"] = {<<"m1", 2>>, <<"m2", 3>>, <<"m3", 1>>}
    /\ zs_keys = <<"k1", "k3">>
    /\ zs_skip = 1
    /\ zs_limit = NoUsize
    /\ zs_sorting = "Descending"
    /\ zs_result = ZsOk(<<NoScores, SomeScores(<< <<"m1", 2>>, <<"m3", 1>> >>)>>)

C30_WitnessLast ==
    /\ tg_pc = "read"
    /\ tg_label = "l1"
    /\ tg_last = <<"del", <<"tagger", "user", "l1">> >>
    /\ WithLabel(tg_live, "l1") = {}
    /\ WithLabel(tg_live, "l2") # {}
    /\ tg_result = NoLabels

\* ------------------------------------------- claims on the tags of the users
\* What the index holds for one user, read on its own: None without a sorted
\* set; otherwise, of the labels of the ranked range, those of score 1 or
\* more that have taggers, each with the taggers of its own set
ExpectedFromIndex(sorted, sets, u, skip_tags, limit_tags, viewer_id, is_cache) ==
    IF sorted[<<is_cache, u>>] = {} THEN NoTags
    ELSE LET range == ZRANGEBYSCORE(sorted[<<is_cache, u>>], unwrap_or(skip_tags, 0),
                                    unwrap_or(limit_tags, DefaultLimitTags),
                                    "Descending")
             kept == SelectSeq(range,
                        LAMBDA e : e[2] >= 1 /\ sets[<<is_cache, u, e[1]>>] # {})
         IN  SomeTags([k \in DOMAIN kept |->
                 LET members == sets[<<is_cache, u, kept[k][1]>>]
                 IN  TagDetails(kept[k][1], members, Cardinality(members),
                                viewer_id \in members)])

\* C34: in get_from_index_multiple the taggers fetched in one batch are
\* attributed to the right user and label: whatever keys are missing, sets
\* empty and labels below score 1, the offset into the taggers list never
\* leaves the list (the call does not fail), the result has one entry per
\* user, each equal to what the index holds for that user alone, every label
\* with the taggers of that same label; get_by_ids hands on every entry found.
C34_TaggersAttributed ==
    [][(tu_pc = "idle" /\ tu_pc' = "read") =>
          LET a == tu_args'
              is_cache == use_cache_of(a.viewer_id, a.depth)
              found == get_from_index_multiple(tu_sorted, tu_sets, a.user_ids,
                           a.skip_tags, a.limit_tags, a.viewer_id, is_cache)
          IN  /\ found.ok
              /\ tu_result'.ok
              /\ Len(found.value) = Len(a.user_ids)
              /\ \A i \in DOMAIN a.user_ids :
                    LET expected == ExpectedFromIndex(tu_sorted, tu_sets, a.user_ids[i],
                                        a.skip_tags, a.limit_tags, a.viewer_id, is_cache)
                    IN  /\ found.value[i] = expected
                        /\ expected.is_some => tu_result'.value[i] = expected]_vars

\* u1 has lost the taggers of its first label, u2 has two labels: u1 gets
\* the taggers of its own y, u2 those of its own x and y.
C34_Witness ==
    /\ tu_pc = "read"
    /\ tu_args.user_ids = <<"u1", "u2">>
    /\ tu_args.viewer_id = NoViewer
    /\ tu_args.skip_tags = NoUsize
    /\ tu_sorted[<<FALSE, "u1">>] = {<<"x", 2>>, <<"y", 1>>}
    /\ tu_sets[<<FALSE, "u1", "x">>] = {}
    /\ tu_sorted[<<FALSE, "u2">>] = {<<"x", 2>>, <<"y", 1>>}
    /\ tu_result.value =
          <<SomeTags(<<TagDetails("y", {"u1y1"}, 1, FALSE)>>),
            SomeTags(<<TagDetails("x", {"u2x1", "u2x2"}, 2, FALSE),
                       TagDetails("y", {"v"}, 1, FALSE)>>)>>

\* u1 holds only a label below score 1 and u2 is read from its second label
\* on: u1 gets no tags and u2 the taggers of its own y.
C34_WitnessFaded ==
    /\ tu_pc = "read"
    /\ tu_args.user_ids = <<"u1", "u2">>
    /\ tu_args.viewer_id = NoViewer
    /\ tu_args.skip_tags = 1
    /\ tu_sorted[<<FALSE, "u1">>] = {<<"x", 1>>, <<"y", 0>>}
    /\ tu_sorted[<<FALSE, "u2">>] = {<<"x", 2>>, <<"y", 1>>}
    /\ tu_sets[<<FALSE, "u2", "x">>] # {}
    /\ tu_result.value =
          <<SomeTags(<<>>), SomeTags(<<TagDetails("y", {"v"}, 1, FALSE)>>)>>

\* Every tag of the list is in the index of the user: its label in the
\* sorted set, its taggers in the set of the label
TagsInIndex(sorted, sets, u, tags, is_cache) ==
    \A k \in DOMAIN tags :
        /\ <<tags[k].label, tags[k].taggers_count>> \in sorted[<<is_cache, u>>]
        /\ tags[k].taggers \subseteq sets[<<is_cache, u, tags[k].label>>]

\* C35: get_by_ids is cache-aside per user: a user whose tags are in the
\* index is answered from it without a graph query; a user missing from the
\* index is looked up in the graph, and when the graph returns tags they
\* are written to the index and returned at that user's position, so that a
\* repeated call finds them there; a user absent from both stays None.
C35_CacheAside ==
    [][(tu_pc = "idle" /\ tu_pc' = "read") =>
          LET a == tu_args'
              is_cache == use_cache_of(a.viewer_id, a.depth)
          IN  /\ tu_result'.ok
              /\ Len(tu_result'.value) = Len(a.user_ids)
              /\ \A i \in DOMAIN a.user_ids :
                    LET u == a.user_ids[i]
                        key == <<is_cache, u>>
                    IN  IF tu_sorted[key] # {}
                        THEN /\ tu_result'.value[i] =
                                   ExpectedFromIndex(tu_sorted, tu_sets, u, a.skip_tags,
                                       a.limit_tags, a.viewer_id, is_cache)
                             /\ \A q \in DOMAIN tu_queried' : tu_queried'[q] # u
                             /\ tu_sorted'[key] = tu_sorted[key]
                        ELSE /\ \E q \in DOMAIN tu_queried' : tu_queried'[q] = u
                             /\ tu_result'.value[i] = tu_graph[u]
                             /\ tu_graph[u].is_some =>
                                   TagsInIndex(tu_sorted', tu_sets', u,
                                               tu_graph[u].value, is_cache)
                             /\ (tu_graph[u].is_some /\ tu_graph[u].value # <<>>) =>
                                   tu_sorted'[key] # {}
                             /\ ~tu_graph[u].is_some => tu_sorted'[key] = {}]_vars

\* The viewer's cache was cold: u1, which the graph knows with two tags, was
\* asked of the graph, got them at its position and has them in the cache;
\* u2, which the graph does not know, stays None.
C35_Witness ==
    /\ tu_pc = "read"
    /\ tu_args.user_ids = <<"u2", "u1">>
    /\ tu_args.viewer_id = "v"
    /\ tu_args.depth = 1
    /\ tu_queried = <<"u2", "u1">>
    /\ ~tu_graph["u2"].is_some
    /\ tu_graph["u1"].is_some
    /\ Len(tu_graph["u1"].value) = 2
    /\ tu_result.value = <<NoTags, tu_graph["u1"]>>
    /\ tu_sorted[<<TRUE, "u1">>] = {<<"y", 2>>, <<"z", 1>>}
    /\ tu_sets[<<TRUE, "u1", "z">>] = {"u1g3"}
    /\ tu_sorted[<<TRUE, "u2">>] = {}

\* A repeated call: the cache, cold at the start, answers for u1 and the
\* graph is not asked.
C35_WitnessRepeated ==
    /\ tu_pc = "read"
    /\ tu_args.user_ids = <<"u1">>
    /\ tu_args.viewer_id = "v"
    /\ tu_args.depth = 1
    /\ tu_args.skip_tags = NoUsize
    /\ tu_args.limit_tags = NoUsize
    /\ tu_queried = <<>>
    /\ tu_result.value =
          <<SomeTags(<<TagDetails("y", {"u1g1", "u1g2"}, 2, FALSE),
                       TagDetails("z", {"u1g3"}, 1, FALSE)>>)>>

\* ---------------------------------- claims on the processors of the factory
\* What is done for the first n homeservers of the list when each is built
\* and run with success
RECURSIVE FpAllRan(_)
FpAllRan(n) ==
    IF n = 0 THEN <<>>
    ELSE FpAllRan(n - 1) \o <<FpEntry(fp_list[n], "built"), FpEntry(fp_list[n], "ran")>>

\* C39: run_processors runs the homeservers one after another in the order
\* returned by the graph and starts the processor of a homeserver only if
\* the build and the run of every earlier one succeeded: the first build
\* failure or run error aborts the whole call and leaves all the later
\* homeservers unprocessed.
C39_FirstFailureAborts ==
    /\ [](/\ fp_pc = "build" => fp_log = FpAllRan(fp_idx - 1)
          /\ fp_pc = "run" =>
                fp_log = Append(FpAllRan(fp_idx - 1), FpEntry(fp_list[fp_idx], "built"))
          /\ fp_pc = "done" => fp_log = FpAllRan(Len(fp_list))
          /\ fp_pc = "panicked" =>
                \/ fp_log = <<>>
                \/ fp_log = Append(FpAllRan(fp_idx - 1),
                                   FpEntry(fp_list[fp_idx], "build_failed"))
                \/ fp_log = FpAllRan(fp_idx - 1)
                               \o <<FpEntry(fp_list[fp_idx], "built"),
                                    FpEntry(fp_list[fp_idx], "run_failed")>>)
    /\ [][fp_pc = "panicked" => UNCHANGED fp_vars]_vars

\* The run of the second of three homeservers failed: the third was never
\* built.
C39_Witness ==
    /\ fp_pc = "panicked"
    /\ Len(fp_list) = 3
    /\ fp_idx = 2
    /\ fp_log = <<FpEntry(fp_list[1], "built"), FpEntry(fp_list[1], "ran"),
                  FpEntry(fp_list[2], "built"), FpEntry(fp_list[2], "run_failed")>>

\* The build of the first of three homeservers failed.
C39_WitnessBuild ==
    /\ fp_pc = "panicked"
    /\ Len(fp_list) = 3
    /\ fp_log = <<FpEntry(fp_list[1], "build_failed")>>

====
